---- MODULE Spec2Model ----
(***************************************************************************)
(* State-machine model of the nurse diagnostic reporter,                   *)
(* TerminalReporter of src/reporter/terminal.rs, in its two flavours.      *)
(*                                                                         *)
(* Spec, the exclusive flavour (terminal.rs 79-348): one caller owns the   *)
(* reporter, every operation runs from call to return before the next one *)
(* starts, so every operation is one action.                               *)
(*                                                                         *)
(* SpecShared, the shared flavour (feature smol, terminal.rs 350-632):     *)
(* the pending diagnostics and the file table are each behind a            *)
(* cooperative mutex; reporting tasks call register_file, report and       *)
(* report_all while one owner task calls emit and emit_all.  Every lock    *)
(* acquisition and every write to the emitter is a step of its own.        *)
(*                                                                         *)
(* emit and emit_all take `&mut self`, so a Rust caller cannot overlap     *)
(* them with another operation.  SpecShared does not use that restriction: *)
(* it lets the other tasks' operations interleave with an emission, which  *)
(* is what the locking of emit_all and pointer is written for.  Every      *)
(* behaviour of a Rust caller is a behaviour of SpecShared.                *)
(***************************************************************************)
EXTENDS Integers, Sequences, FiniteSets, TLC

VARIABLES
    filter,        \* TerminalReporter.filter
    diagnostics,   \* TerminalReporter.diagnostics: the pending queue
    lookups,       \* TerminalReporter.lookups: slot i holds (name, Lookup)
    dlock,         \* holder of the mutex around diagnostics, or NoTask
    llock,         \* holder of the mutex around lookups, or NoTask
    pc,            \* position of every task in the operation it runs
    arg,           \* the argument of the operation a reporting task runs
    snapshot,      \* emit_all: the local Vec, what is left to iterate
    cur,           \* emit_fancy: the diagnostic being written
    caller,        \* emit_fancy: "emit" or "emit_all"
    result,        \* emit_all: the local `result`
    output,        \* what the sink accepted since the running (or last)
                   \* emit / emit_all call began, in order
    made,          \* number of diagnostics constructed so far
    files,         \* number of register_file calls so far
    calls,         \* number of emit_all calls so far
    taken,         \* history: the queue the running (or last) emit_all swapped out
    attempted,     \* history: the diagnostics that call handed to emit_fancy
    failures,      \* history: the writes of that call that failed, in order
    returned,      \* history: what the last emit / emit_all call returned
    writer,        \* history: per message, the emit_all call that wrote it
    rewritten,     \* history: some message was written by two emit_all calls
    pushed,        \* history: batches appended since the last swap, in
                   \* lock-release order
    fate,          \* history: per message, where its diagnostic went
    emitted,       \* history: the diagnostic the last emit call was given
    issued,        \* history: keys returned by register_file, in order
    others,        \* the file table of a second reporter
    text,          \* a Lookup built outside any reporter, or None
    probe          \* the last query call: its operation, arguments and result

vars == << filter, diagnostics, lookups, dlock, llock, pc, arg, snapshot, cur,
           caller, result, output, made, files, calls, taken, attempted,
           failures, returned, writer, rewritten, pushed, fate, emitted,
           issued, others, text, probe >>

(***************************************************************************)
(* Bounds of the model.                                                    *)
(***************************************************************************)
MaxDiags == 3
MaxFiles == 2
MaxEmitAll == 2
MaxOffset == 9
MaxOtherFiles == 1

Owner == "owner"
Workers == {"w1", "w2"}
Tasks == Workers \cup {Owner}
NoTask == "none"

(***************************************************************************)
(* Data model: diagnostic.rs, span.rs, lookup.rs.                          *)
(***************************************************************************)
Level == {"Error", "Warn", "Info", "Debug"}
LevelFilter == {"Off", "Error", "Warn", "Info", "Debug"}

None == [some |-> FALSE]
Some(x) == [some |-> TRUE, val |-> x]

Span(key, from, to) == [lookup |-> key, start |-> from, end |-> to]

Note(value, span) == [value |-> value, span |-> span]

Diagnostic(level, message, note, span) ==
    [level |-> level, message |-> message, note |-> note, span |-> span]

passes_WarnDropsError(f, level) ==
    \/ f = "Error" /\ level = "Error"
    \/ f = "Warn" /\ level = "Warn"
    \/ f = "Info" /\ level \in {"Error", "Warn", "Info"}
    \/ f = "Debug"

\* LevelFilter::passes: the match of (filter, level)
passes(f, level) ==
    \/ f = "Error" /\ level = "Error"
    \/ f = "Warn" /\ level \in {"Error", "Warn"}
    \/ f = "Info" /\ level \in {"Error", "Warn", "Info"}
    \/ f = "Debug"

\* Diagnostic::is_error
is_error(d) == d.level = "Error"

\* Lookup::new: tabs become spaces, heads = 0 and the offset after each newline
ReplaceTabs(source) ==
    [i \in 1..Len(source) |-> IF source[i] = "\t" THEN " " ELSE source[i]]

RECURSIVE HeadsFrom(_, _)
HeadsFrom(source, i) ==
    IF i > Len(source) THEN << >>
    ELSE IF source[i] = "\n" THEN << i >> \o HeadsFrom(source, i + 1)
    ELSE HeadsFrom(source, i + 1)

\* variant: a line starts at its newline, not after it
LookupNew_HeadsAtNewline(contents) ==
    LET source == ReplaceTabs(contents)
        after == HeadsFrom(source, 1)
    IN  [source |-> source,
         heads |-> << 0 >> \o [k \in 1..Len(after) |-> after[k] - 1]]

LookupNew(contents) ==
    LET source == ReplaceTabs(contents)
    IN  [source |-> source, heads |-> << 0 >> \o HeadsFrom(source, 1)]

\* slice::binary_search on a strictly increasing slice: Ok(position) when x is
\* in it, Err(position where x would be inserted) otherwise; positions from 0
BinarySearch(slice, x) ==
    IF \E i \in 1..Len(slice) : slice[i] = x
    THEN [ok |-> TRUE, at |-> (CHOOSE i \in 1..Len(slice) : slice[i] = x) - 1]
    ELSE [ok |-> FALSE, at |-> Cardinality({i \in 1..Len(slice) : slice[i] < x})]

\* variant: the insertion point itself is the line
line_n_InsertPoint(lookup, index) ==
    BinarySearch(lookup.heads, index).at

\* Lookup::line_n; heads[line] of the source is lookup.heads[line + 1] here
line_n(lookup, index) ==
    LET found == BinarySearch(lookup.heads, index)
    IN  IF found.ok THEN found.at ELSE found.at - 1

\* variant: columns are counted from 1
col_from_line_OneBased(lookup, line_, index) ==
    index - lookup.heads[line_ + 1] + 1

\* Lookup::col_from_line
col_from_line(lookup, line_, index) ==
    index - lookup.heads[line_ + 1]

\* Lookup::line_col
line_col(lookup, index) ==
    << line_n(lookup, index), col_from_line(lookup, line_n(lookup, index), index) >>

\* Lookup::file_len
file_len(lookup) == Len(lookup.source)

\* `*self.heads.get(line + 1).unwrap_or(&self.source.len())`
NextStart(lookup, line_) ==
    IF line_ + 2 <= Len(lookup.heads) THEN lookup.heads[line_ + 2]
    ELSE Len(lookup.source)

\* Lookup::line: the text of a line, its newline included
line(lookup, index) ==
    SubSeq(lookup.source, lookup.heads[index + 1] + 1, NextStart(lookup, index))

\* Range<usize>, and Range::len, which is 0 when the end is not after the start
Range(from, to) == [start |-> from, end |-> to]
RangeLen(r) == IF r.end > r.start THEN r.end - r.start ELSE 0

\* Lookup::lines: the binary search is over heads[start_line..], and the
\* position it yields is used as it is
lines(lookup, span) ==
    LET start_line == line_n(lookup, span.start)
        next_start == NextStart(lookup, start_line)
        rest == SubSeq(lookup.heads, start_line + 1, Len(lookup.heads))
        found == BinarySearch(rest, span.end - 1)
    IN  IF span.end <= next_start THEN Range(start_line, start_line + 1)
        ELSE IF found.ok THEN Range(start_line, found.at + 1)
        ELSE Range(start_line, found.at)

\* pointer: `if lines.len() > 1` chooses the layout (172-176, 218)
PointerLayout(lookup, span) ==
    IF RangeLen(lines(lookup, Range(span.start, span.end))) > 1
    THEN "multi-line" ELSE "single-line"

\* a call that returned val, and one that panicked
Val(val) == [panicked |-> FALSE, val |-> val]
Panic == [panicked |-> TRUE]

Min(a, b) == IF a <= b THEN a ELSE b
Max(a, b) == IF a >= b THEN a ELSE b

\* variant: the merged span starts where the receiver starts
SpanTo_StartOfSelf(self, other) ==
    IF self.lookup # other.lookup THEN Panic
    ELSE Val(Span(other.lookup, self.start, Max(self.end, other.end)))

\* variant: the keys are not compared
SpanTo_NoAssert(self, other) ==
    Val(Span(other.lookup, Min(self.start, other.start), Max(self.end, other.end)))

\* Span::to: assert_eq! on the keys, then min of the starts, max of the ends
SpanTo(self, other) ==
    IF self.lookup # other.lookup THEN Panic
    ELSE Val(Span(other.lookup, Min(self.start, other.start),
                  Max(self.end, other.end)))

\* variant: the table is keyed by the file's name
SlotMapInsertKey_ByName(map, value) ==
    IF \E i \in 1..Len(map) : map[i].name = value.name
    THEN CHOOSE i \in 1..Len(map) : map[i].name = value.name
    ELSE Len(map) + 1

\* the key SlotMap::insert returns on a map nothing is removed from: the next
\* slot index (slot 0 is the sentinel) with version 1, whatever the value is
SlotMapInsertKey(map, value) == Len(map) + 1

\* SlotMap::get: Some(value) iff the key names an occupied slot
SlotMapGet(map, key) ==
    IF key \in 1..Len(map) THEN Some(map[key]) ELSE None

\* str::trim_end on the text of a line (177, 178, 219): the trailing white
\* space, the newline included, is cut off
IsWhitespace(c) == c \in {" ", "\n", "\t", "\r"}

RECURSIVE trim_end(_)
trim_end(str) ==
    IF str = << >> THEN str
    ELSE IF IsWhitespace(str[Len(str)]) THEN trim_end(SubSeq(str, 1, Len(str) - 1))
    ELSE str

\* usize::ilog10 of a positive number (182, 220)
RECURSIVE ilog10(_)
ilog10(n) == IF n < 10 THEN 0 ELSE 1 + ilog10(n \div 10)

\* Level::title and Level::color
title(level) ==
    CASE level = "Error" -> "error" [] level = "Warn" -> "warning"
      [] level = "Info" -> "info" [] level = "Debug" -> "debug"

TitleLen(level) ==
    CASE level = "Error" -> 5 [] level = "Warn" -> 7
      [] level = "Info" -> 4 [] level = "Debug" -> 5

color(level) ==
    CASE level = "Error" -> "Red" [] level = "Warn" -> "Yellow"
      [] level = "Info" -> "Cyan" [] level = "Debug" -> "BrightMagenta"

\* variant: the header shows the zero-based line and column
PointerHeader_ZeroBased(file, lookup, first, span) ==
    [name |-> file,
     line_n |-> first,
     col_n |-> col_from_line(lookup, first, span.start)]

\* pointer: `line_n` and `col_n` (173-174), the numbers of the header
\* `[{name}:{line_n}:{col_n}]` of both layouts (187, 225); `first` is
\* lines.start
PointerHeader(file, lookup, first, span) ==
    [name |-> file,
     line_n |-> first + 1,
     col_n |-> col_from_line(lookup, first, span.start) + 1]

\* pointer (164-248) on a span, as the fields its format strings are filled
\* with.  `note` is taken and never used.  `checked` says whether the build
\* checks integer overflow: a usize subtraction below zero panics when it
\* does; when it does not the value wraps modulo 2^64, kept here as its
\* two's-complement representative (a negative k stands for 2^64 + k).
pointer(map, span, note, arrow_color, checked) ==
    LET got == SlotMapGet(map, span.lookup)
        lookup == got.val.lookup
        spanned == lines(lookup, Range(span.start, span.end))
        header == PointerHeader(got.val.name, lookup, spanned.start, span)
    IN  IF ~got.some THEN Panic
        ELSE IF RangeLen(spanned) > 1
        THEN LET start == trim_end(line(lookup, spanned.start))
                 end == trim_end(line(lookup, spanned.end - 1))
                 end_col == col_from_line(lookup, spanned.end - 1, span.end)
                 offset == Max(ilog10(spanned.end + 1), 2) + 2
             IN  IF checked /\ Len(start) < header.col_n THEN Panic
                 ELSE Val([layout |-> "multi-line",
                           name |-> header.name,
                           line_n |-> header.line_n,
                           col_n |-> header.col_n,
                           start_n |-> spanned.start + 1,
                           start |-> start,
                           start_pointer |->
                               [dots |-> header.col_n - 1,
                                dashes |-> Len(start) - header.col_n + 1],
                           end_n |-> spanned.end + 1,
                           end |-> end,
                           end_pointer |-> [dashes |-> end_col],
                           color |-> arrow_color,
                           offset |-> offset])
        ELSE Val([layout |-> "single-line",
                  name |-> header.name,
                  line_n |-> header.line_n,
                  col_n |-> header.col_n,
                  n |-> header.line_n,
                  line |-> trim_end(line(lookup, spanned.start)),
                  pointer |-> [blanks |-> header.col_n - 1,
                               underline |-> span.end - span.start],
                  color |-> arrow_color,
                  offset |-> ilog10(spanned.start + 1) + 2])

(***************************************************************************)
(* Inputs of the operations.                                               *)
(***************************************************************************)
Names == {"a.txt"}
Contents == { << "a", "\n", "\t", "b" >>, << "1", " ", "+", " " >> }

\* The file a second reporter registers.
OtherFiles == { << "b.txt", << "x", "y" >> >> }

\* The offsets of the spans handed to location.
LocationOffsets == {3}

\* The source texts a Lookup is built from outside a reporter, byte by byte.
Sources ==
    { << >>,
      << "a", "\n", "b", "b", "\n", "c", "c", "c" >>,
      << "1", " ", "+", " " >>,
      << "a", "\n", "\t", "b" >>,
      << "\n", "\n" >>,
      << "a", "b", "\n" >>,
      << "\t", "\n", "\t", "\t", "\n", "\n", "x" >> }

\* The offsets handed to the queries of a Lookup.
Offsets == 0..MaxOffset

\* The spans handed to Span::to.
ToSpans == { Span(key, from, to) : key \in 1..2, from \in 0..3, to \in 1..3 }

\* The diagnostics a caller constructs: messages are numbered in the order of
\* construction, so that every diagnostic is told apart.  Key 1 is the key of
\* the first registered file, and the key of no file while none is registered.
NewDiagnostics(message) ==
    { Diagnostic("Error", message, None, Some(Span(1, 0, 1))),
      Diagnostic("Warn", message, None, None),
      Diagnostic("Info", message, Some(Note("n", None)), None),
      Diagnostic("Debug", message, Some(Note("n", None)), Some(Span(1, 0, 1))) }

\* The diagnostics the tasks of the shared flavour construct.
TaskDiagnostics(message) ==
    { Diagnostic("Error", message, None, Some(Span(1, 0, 1))),
      Diagnostic("Debug", message, Some(Note("n", None)), None) }

TaskBatches ==
    { << d1, d2 >> : d1 \in TaskDiagnostics(made + 1), d2 \in TaskDiagnostics(made + 2) }

\* The files the tasks of the shared flavour register: the same name and
\* contents every time.
TaskFiles == { << "a.txt", << "a", "\n", "\t", "b" >> >> }

\* The filters the shared flavour is constructed with.
TaskFilters == {"Warn", "Debug"}

\* The vectors a caller can hand to report_all next.
NewBatches ==
    { << d1, d2 >> : d1 \in NewDiagnostics(made + 1), d2 \in NewDiagnostics(made + 2) }

OkResult == [ok |-> TRUE, err |-> << 0, "none" >>]
ErrResult(message, part) == [ok |-> FALSE, err |-> << message, part >>]

NoReturn == [op |-> "none", res |-> OkResult]
Return(op, res) == [op |-> op, res |-> res]

Messages(seq) == [i \in 1..Len(seq) |-> seq[i].message]

\* a query call that returned res, one that panicked, and no call yet
Returned(op, args, res) == [op |-> op, args |-> args, panicked |-> FALSE, res |-> res]
Panicked(op, args) == [op |-> op, args |-> args, panicked |-> TRUE]
NoProbe == [op |-> "none"]

(***************************************************************************)
(* Initial state: TerminalReporter::new / filtered / default.              *)
(***************************************************************************)
Init ==
    /\ filter \in LevelFilter
    /\ diagnostics = << >>
    /\ lookups = << >>
    /\ dlock = NoTask
    /\ llock = NoTask
    /\ pc = [t \in Tasks |-> "idle"]
    /\ arg = [t \in Workers |-> << >>]
    /\ snapshot = << >>
    /\ cur = None
    /\ caller = "none"
    /\ result = OkResult
    /\ output = << >>
    /\ made = 0
    /\ files = 0
    /\ calls = 0
    /\ taken = << >>
    /\ attempted = << >>
    /\ failures = << >>
    /\ returned = NoReturn
    /\ writer = [m \in 1..MaxDiags |-> 0]
    /\ rewritten = FALSE
    /\ fate = [m \in 1..MaxDiags |-> "unmade"]
    /\ emitted = None
    /\ pushed = << >>
    /\ issued = << >>
    /\ others = << >>
    /\ text = None
    /\ probe = NoProbe

reporterVars == << filter, diagnostics, lookups >>
lockVars == << dlock, llock >>
emitVars == << snapshot, cur, caller, result >>
sinkVars == << output, attempted, failures, returned >>
countVars == << made, files, calls >>
histVars == << taken, writer, rewritten, pushed, issued, fate, emitted >>
queryVars == << others, text, probe >>

\* fate, with the diagnostics of ds now at `place`
Moved(ds, place) ==
    [m \in DOMAIN fate |->
        IF \E i \in 1..Len(ds) : ds[i].message = m THEN place ELSE fate[m]]

RECURSIVE Flatten(_)
Flatten(batches) ==
    IF batches = << >> THEN << >> ELSE Head(batches) \o Flatten(Tail(batches))

(***************************************************************************)
(* register_file (smol): terminal.rs 358-361.                              *)
(***************************************************************************)
RegisterFileCall(t) ==
    /\ pc[t] = "idle"
    /\ files < MaxFiles
    /\ \E file \in TaskFiles : arg' = [arg EXCEPT ![t] = file]
    /\ files' = files + 1
    /\ pc' = [pc EXCEPT ![t] = "register_lock"]
    /\ UNCHANGED << reporterVars, lockVars, emitVars, sinkVars, histVars, made, calls >>
    /\ UNCHANGED queryVars

\* self.lookups.lock().await
RegisterFileLock(t) ==
    /\ pc[t] = "register_lock"
    /\ llock = NoTask
    /\ llock' = t
    /\ pc' = [pc EXCEPT ![t] = "register_insert"]
    /\ UNCHANGED << reporterVars, dlock, arg, emitVars, sinkVars, histVars, countVars >>
    /\ UNCHANGED queryVars

\* lookups.insert((name, Lookup::new(contents))), the guard dropped on return
RegisterFileInsert(t) ==
    /\ pc[t] = "register_insert"
    /\ llock = t
    /\ lookups' = Append(lookups, [name |-> arg[t][1],
                                   lookup |-> LookupNew(arg[t][2])])
    /\ issued' = Append(issued, SlotMapInsertKey(lookups, lookups'[Len(lookups')]))
    /\ llock' = NoTask
    /\ arg' = [arg EXCEPT ![t] = << >>]
    /\ pc' = [pc EXCEPT ![t] = "idle"]
    /\ UNCHANGED << filter, diagnostics, dlock, emitVars, sinkVars, countVars,
                    taken, writer, rewritten, pushed, fate, emitted >>
    /\ UNCHANGED queryVars

(***************************************************************************)
(* report (smol): terminal.rs 366-369.                                     *)
(***************************************************************************)
ReportCall(t) ==
    /\ pc[t] = "idle"
    /\ made < MaxDiags
    /\ \E d \in TaskDiagnostics(made + 1) :
         /\ arg' = [arg EXCEPT ![t] = << d >>]
         /\ fate' = Moved(<< d >>, "flight")
    /\ made' = made + 1
    /\ pc' = [pc EXCEPT ![t] = "report_lock"]
    /\ UNCHANGED << reporterVars, lockVars, emitVars, sinkVars, files, calls,
                    taken, writer, rewritten, pushed, issued, emitted >>
    /\ UNCHANGED queryVars

\* self.diagnostics.lock().await
ReportLock(t) ==
    /\ pc[t] = "report_lock"
    /\ dlock = NoTask
    /\ dlock' = t
    /\ pc' = [pc EXCEPT ![t] = "report_push"]
    /\ UNCHANGED << reporterVars, llock, arg, emitVars, sinkVars, histVars, countVars >>
    /\ UNCHANGED queryVars

\* variant: the diagnostic is inserted at the front of the queue
ReportPush_AtFront(t) ==
    /\ pc[t] = "report_push"
    /\ dlock = t
    /\ diagnostics' = arg[t] \o diagnostics
    /\ pushed' = Append(pushed, arg[t])
    /\ fate' = Moved(arg[t], "queued")
    /\ dlock' = NoTask
    /\ arg' = [arg EXCEPT ![t] = << >>]
    /\ pc' = [pc EXCEPT ![t] = "idle"]
    /\ UNCHANGED << filter, lookups, llock, emitVars, sinkVars, countVars, taken,
                    writer, rewritten, issued, emitted >>
    /\ UNCHANGED queryVars

\* diagnostics.push(diagnostic), the guard dropped on return
ReportPush(t) ==
    /\ pc[t] = "report_push"
    /\ dlock = t
    /\ diagnostics' = Append(diagnostics, arg[t][1])
    /\ pushed' = Append(pushed, arg[t])
    /\ fate' = Moved(arg[t], "queued")
    /\ dlock' = NoTask
    /\ arg' = [arg EXCEPT ![t] = << >>]
    /\ pc' = [pc EXCEPT ![t] = "idle"]
    /\ UNCHANGED << filter, lookups, llock, emitVars, sinkVars, countVars, taken,
                    writer, rewritten, issued, emitted >>
    /\ UNCHANGED queryVars

(***************************************************************************)
(* report_all (smol): terminal.rs 374-377.                                 *)
(***************************************************************************)
ReportAllCall(t) ==
    /\ pc[t] = "idle"
    /\ made + 2 <= MaxDiags
    /\ \E ds \in TaskBatches :
         /\ arg' = [arg EXCEPT ![t] = ds]
         /\ fate' = Moved(ds, "flight")
    /\ made' = made + 2
    /\ pc' = [pc EXCEPT ![t] = "report_all_lock"]
    /\ UNCHANGED << reporterVars, lockVars, emitVars, sinkVars, files, calls,
                    taken, writer, rewritten, pushed, issued, emitted >>
    /\ UNCHANGED queryVars

\* self.diagnostics.lock().await
ReportAllLock(t) ==
    /\ pc[t] = "report_all_lock"
    /\ dlock = NoTask
    /\ dlock' = t
    /\ pc' = [pc EXCEPT ![t] = "report_all_append"]
    /\ UNCHANGED << reporterVars, llock, arg, emitVars, sinkVars, histVars, countVars >>
    /\ UNCHANGED queryVars

\* reported.append(&mut diagnostics), the guard dropped on return
ReportAllAppend(t) ==
    /\ pc[t] = "report_all_append"
    /\ dlock = t
    /\ diagnostics' = diagnostics \o arg[t]
    /\ pushed' = Append(pushed, arg[t])
    /\ fate' = Moved(arg[t], "queued")
    /\ dlock' = NoTask
    /\ arg' = [arg EXCEPT ![t] = << >>]
    /\ pc' = [pc EXCEPT ![t] = "idle"]
    /\ UNCHANGED << filter, lookups, llock, emitVars, sinkVars, countVars, taken,
                    writer, rewritten, issued, emitted >>
    /\ UNCHANGED queryVars

(***************************************************************************)
(* emit_fancy (smol): terminal.rs 430-472, and pointer: 546-556.           *)
(* Every write to the emitter is one step that the sink accepts or fails.  *)
(***************************************************************************)
\* `if let Some(Note { value, span: None }) = diagnostic.note` (453)
UnspannedNote(d) == d.note.some /\ ~d.note.val.span.some

\* `if diagnostic.span.is_some() || note` (467)
WantsNewline(d) == d.span.some \/ d.note.some

\* variant: emit_all puts a diagnostic whose write failed back in front of
\* its snapshot
EmitFancyReturn_RetriesFailed(res) ==
    /\ caller' = "none"
    /\ IF caller = "emit"
       THEN /\ returned' = Return("emit", res)
            /\ pc' = [pc EXCEPT ![Owner] = "idle"]
            /\ cur' = None
            /\ UNCHANGED << result, snapshot >>
       ELSE /\ result' = IF res.ok THEN result ELSE res
            /\ snapshot' = IF res.ok THEN snapshot ELSE << cur.val >> \o snapshot
            /\ cur' = None
            /\ pc' = [pc EXCEPT ![Owner] = "emit_all_loop"]
            /\ UNCHANGED returned

\* emit_fancy returns `res` to the operation that called it: emit hands it to
\* its own caller (401), emit_all keeps an error in `result` (422-424)
EmitFancyReturn(res) ==
    /\ cur' = None
    /\ caller' = "none"
    /\ UNCHANGED snapshot
    /\ IF caller = "emit"
       THEN /\ returned' = Return("emit", res)
            /\ pc' = [pc EXCEPT ![Owner] = "idle"]
            /\ UNCHANGED result
       ELSE /\ result' = IF res.ok THEN result ELSE res
            /\ pc' = [pc EXCEPT ![Owner] = "emit_all_loop"]
            /\ UNCHANGED returned

\* one write of `part`: accepted (the text reaches the sink and emit_fancy goes
\* on at `next`) or failed (`?` returns the error at once)
Write(part, next) ==
    \E accepted \in BOOLEAN :
        IF accepted
        THEN /\ output' = Append(output, << cur.val.message, part >>)
             /\ IF next = "return"
                THEN EmitFancyReturn(OkResult)
                ELSE /\ pc' = [pc EXCEPT ![Owner] = next]
                     /\ UNCHANGED << emitVars, returned >>
             /\ UNCHANGED failures
        ELSE /\ failures' = Append(failures, << cur.val.message, part >>)
             /\ EmitFancyReturn(ErrResult(cur.val.message, part))
             /\ UNCHANGED output

\* where emit_fancy goes on after the pointer (452-469)
AfterPointer(d) ==
    IF UnspannedNote(d) THEN "emit_fancy_note"
    ELSE IF WantsNewline(d) THEN "emit_fancy_newline"
    ELSE "return"

\* self.emitter.write(message) (433), then `if let Some(span)` (443)
EmitFancyMessage ==
    /\ pc[Owner] = "emit_fancy_message"
    /\ Write("message", IF cur.val.span.some THEN "pointer_lock"
                        ELSE AfterPointer(cur.val))
    /\ UNCHANGED << reporterVars, lockVars, arg, attempted, countVars, histVars >>
    /\ UNCHANGED queryVars

\* pointer: self.lookups.lock().await (552)
PointerLock ==
    /\ pc[Owner] = "pointer_lock"
    /\ llock = NoTask
    /\ llock' = Owner
    /\ pc' = [pc EXCEPT ![Owner] = "pointer_get"]
    /\ UNCHANGED << reporterVars, dlock, arg, emitVars, sinkVars, histVars, countVars >>
    /\ UNCHANGED queryVars

\* variant: the guard of the file table lives on after pointer
PointerGet_KeepsGuard ==
    /\ pc[Owner] = "pointer_get"
    /\ llock = Owner
    /\ IF SlotMapGet(lookups, cur.val.span.val.lookup).some
       THEN pc' = [pc EXCEPT ![Owner] = "emit_fancy_pointer"]
       ELSE pc' = [pc EXCEPT ![Owner] = "panicked"]
    /\ UNCHANGED << reporterVars, lockVars, arg, emitVars, sinkVars, histVars,
                    countVars >>
    /\ UNCHANGED queryVars

\* pointer: lookups.get(span.lookup()).expect(..) and the formatting (553-630);
\* the guard is dropped when pointer returns or unwinds
PointerGet ==
    /\ pc[Owner] = "pointer_get"
    /\ llock = Owner
    /\ llock' = NoTask
    /\ IF SlotMapGet(lookups, cur.val.span.val.lookup).some
       THEN pc' = [pc EXCEPT ![Owner] = "emit_fancy_pointer"]
       ELSE pc' = [pc EXCEPT ![Owner] = "panicked"]
    /\ UNCHANGED << reporterVars, dlock, arg, emitVars, sinkVars, histVars, countVars >>
    /\ UNCHANGED queryVars

\* self.emitter.write_all(pointer) (447-449)
EmitFancyPointer ==
    /\ pc[Owner] = "emit_fancy_pointer"
    /\ Write("pointer", AfterPointer(cur.val))
    /\ UNCHANGED << reporterVars, lockVars, arg, attempted, countVars, histVars >>
    /\ UNCHANGED queryVars

\* self.emitter.write_all("= note: ..") (454-464)
EmitFancyNote ==
    /\ pc[Owner] = "emit_fancy_note"
    /\ Write("note", "emit_fancy_newline")
    /\ UNCHANGED << reporterVars, lockVars, arg, attempted, countVars, histVars >>
    /\ UNCHANGED queryVars

\* self.emitter.write(b"\n") (468)
EmitFancyNewline ==
    /\ pc[Owner] = "emit_fancy_newline"
    /\ Write("newline", "return")
    /\ UNCHANGED << reporterVars, lockVars, arg, attempted, countVars, histVars >>
    /\ UNCHANGED queryVars

(***************************************************************************)
(* emit (smol): terminal.rs 396-402.                                       *)
(***************************************************************************)
Emit ==
    /\ pc[Owner] = "idle"
    /\ made < MaxDiags
    /\ made' = made + 1
    /\ output' = << >>
    /\ failures' = << >>
    /\ \E d \in TaskDiagnostics(made + 1) :
         /\ emitted' = Some(d)
         /\ fate' = Moved(<< d >>, "emitted")
         /\ IF ~passes(filter, d.level)
            THEN /\ returned' = Return("emit", OkResult)
                 /\ attempted' = << >>
                 /\ UNCHANGED << pc, emitVars >>
            ELSE /\ cur' = Some(d)
                 /\ caller' = "emit"
                 /\ attempted' = << d >>
                 /\ returned' = NoReturn
                 /\ pc' = [pc EXCEPT ![Owner] = "emit_fancy_message"]
                 /\ UNCHANGED << snapshot, result >>
    /\ UNCHANGED << reporterVars, lockVars, arg, files, calls, taken, writer,
                    rewritten, pushed, issued >>
    /\ UNCHANGED queryVars

(***************************************************************************)
(* emit_all (smol): terminal.rs 408-428.                                   *)
(***************************************************************************)
\* let mut result = Ok(()); let mut diagnostics = Vec::new(); (409-411)
EmitAllCall ==
    /\ pc[Owner] = "idle"
    /\ calls < MaxEmitAll
    /\ calls' = calls + 1
    /\ result' = OkResult
    /\ snapshot' = << >>
    /\ output' = << >>
    /\ attempted' = << >>
    /\ failures' = << >>
    /\ returned' = NoReturn
    /\ taken' = << >>
    /\ pc' = [pc EXCEPT ![Owner] = "emit_all_lock"]
    /\ UNCHANGED << reporterVars, lockVars, arg, cur, caller, made, files,
                    writer, rewritten, pushed, issued, fate, emitted >>
    /\ UNCHANGED queryVars

\* self.diagnostics.lock().await (412)
EmitAllLock ==
    /\ pc[Owner] = "emit_all_lock"
    /\ dlock = NoTask
    /\ dlock' = Owner
    /\ pc' = [pc EXCEPT ![Owner] = "emit_all_swap"]
    /\ UNCHANGED << reporterVars, llock, arg, emitVars, sinkVars, histVars, countVars >>
    /\ UNCHANGED queryVars

\* variant: the queue is cloned into the local vector and left as it is
EmitAllSwap_Clone ==
    /\ pc[Owner] = "emit_all_swap"
    /\ dlock = Owner
    /\ snapshot' = diagnostics
    /\ taken' = diagnostics
    /\ pushed' = << >>
    /\ fate' = Moved(diagnostics, "taken")
    /\ dlock' = NoTask
    /\ pc' = [pc EXCEPT ![Owner] = "emit_all_loop"]
    /\ UNCHANGED << reporterVars, llock, arg, cur, caller, result, sinkVars,
                    countVars, writer, rewritten, issued, emitted >>
    /\ UNCHANGED queryVars

\* mem::swap(&mut diagnostics, &mut owned_diagnostics); drop(owned_diagnostics)
\* (414-415)
EmitAllSwap ==
    /\ pc[Owner] = "emit_all_swap"
    /\ dlock = Owner
    /\ snapshot' = diagnostics
    /\ diagnostics' = snapshot
    /\ taken' = diagnostics
    /\ pushed' = << >>
    /\ fate' = Moved(diagnostics, "taken")
    /\ dlock' = NoTask
    /\ pc' = [pc EXCEPT ![Owner] = "emit_all_loop"]
    /\ UNCHANGED << filter, lookups, llock, arg, cur, caller, result, sinkVars,
                    countVars, writer, rewritten, issued, emitted >>
    /\ UNCHANGED queryVars

\* one turn of `for diagnostic in diagnostics.into_iter()` (417-425), or the
\* final `result` (427) when the vector is exhausted
EmitAllNext ==
    /\ pc[Owner] = "emit_all_loop"
    /\ IF snapshot = << >>
       THEN /\ returned' = Return("emit_all", result)
            /\ pc' = [pc EXCEPT ![Owner] = "idle"]
            /\ UNCHANGED << snapshot, cur, caller, attempted, writer, rewritten >>
       ELSE /\ snapshot' = Tail(snapshot)
            /\ IF ~passes(filter, Head(snapshot).level)
               THEN UNCHANGED << pc, cur, caller, attempted, returned, writer,
                                 rewritten >>
               ELSE /\ cur' = Some(Head(snapshot))
                    /\ caller' = "emit_all"
                    /\ attempted' = Append(attempted, Head(snapshot))
                    /\ writer' = [writer EXCEPT ![Head(snapshot).message] = calls]
                    /\ rewritten' = (rewritten \/
                                     writer[Head(snapshot).message] \notin {0, calls})
                    /\ pc' = [pc EXCEPT ![Owner] = "emit_fancy_message"]
                    /\ UNCHANGED returned
    /\ UNCHANGED << reporterVars, lockVars, arg, result, output, failures,
                    countVars, taken, pushed, issued, fate, emitted >>
    /\ UNCHANGED queryVars

(***************************************************************************)
(* The exclusive flavour: terminal.rs 79-348.  An operation is one action; *)
(* what the sink does with the writes of an emission is an input of it:    *)
(* fail = k says that the k-th write of a diagnostic fails, 0 that none    *)
(* does.                                                                   *)
(***************************************************************************)
\* the writes emit_fancy makes for d, in order (129, 143, 148, 158)
WritesOf(d) ==
    << "message" >>
    \o (IF d.span.some THEN << "pointer" >> ELSE << >>)
    \o (IF UnspannedNote(d) THEN << "note" >> ELSE << >>)
    \o (IF WantsNewline(d) THEN << "newline" >> ELSE << >>)

\* pointer panics on `expect` when the span's key is in no slot (170)
PointerPanics(map, d) ==
    d.span.some /\ ~SlotMapGet(map, d.span.val.lookup).some

\* emit_fancy (126-162) on d when write number `fail` fails (0: none does):
\* the chunks the sink accepted, the failed write if any, the result, and
\* whether pointer panicked (then there is no result)
EmitFancy(map, d, fail) ==
    LET writes == WritesOf(d)
        stop == IF fail \in 1..Len(writes) THEN fail ELSE Len(writes) + 1
        panics == PointerPanics(map, d) /\ stop > 1
        done == IF panics THEN 1 ELSE stop - 1
    IN  [ output |-> [i \in 1..done |-> << d.message, writes[i] >>],
          failures |-> IF ~panics /\ stop <= Len(writes)
                       THEN << << d.message, writes[stop] >> >> ELSE << >>,
          res |-> IF ~panics /\ stop <= Len(writes)
                  THEN ErrResult(d.message, writes[stop]) ELSE OkResult,
          panicked |-> panics ]

\* every way emit_fancy on d can end, over what the sink does
EmitFancyOutcomes(map, d) ==
    { EmitFancy(map, d, fail) : fail \in 0..Len(WritesOf(d)) }

\* variant: the later diagnostic goes in front of the earlier ones
EmitAllStep_Prepend(acc, d, r) ==
    [ output |-> r.output \o acc.output,
      attempted |-> << d >> \o acc.attempted,
      failures |-> acc.failures \o r.failures,
      result |-> IF r.res.ok THEN acc.result ELSE r.res,
      panicked |-> r.panicked ]

\* variant: `result` keeps the first error and ignores the later ones
EmitAllStep_KeepFirst(acc, d, r) ==
    [ output |-> acc.output \o r.output,
      attempted |-> Append(acc.attempted, d),
      failures |-> acc.failures \o r.failures,
      result |-> IF r.res.ok \/ ~acc.result.ok THEN acc.result ELSE r.res,
      panicked |-> r.panicked ]

\* emit_all after one more emit_fancy that ended as r: `if let Err(err) = ..
\* { result = Err(err) }` (118-120)
EmitAllStep(acc, d, r) ==
    [ output |-> acc.output \o r.output,
      attempted |-> Append(acc.attempted, d),
      failures |-> acc.failures \o r.failures,
      result |-> IF r.res.ok THEN acc.result ELSE r.res,
      panicked |-> r.panicked ]

\* variant: the loop returns at the first error (`?` on emit_fancy)
RECURSIVE EmitAllLoop_StopAtError(_, _, _, _)
EmitAllLoop_StopAtError(map, f, rest, acc) ==
    IF rest = << >> \/ ~acc.result.ok THEN { acc }
    ELSE IF ~passes(f, Head(rest).level)
    THEN EmitAllLoop_StopAtError(map, f, Tail(rest), acc)
    ELSE UNION { IF r.panicked
                 THEN { EmitAllStep(acc, Head(rest), r) }
                 ELSE EmitAllLoop_StopAtError(map, f, Tail(rest),
                                              EmitAllStep(acc, Head(rest), r))
                 : r \in EmitFancyOutcomes(map, Head(rest)) }

\* every way the loop of emit_all (113-121) can end over what is left of the
\* swapped-out vector; acc carries the local `result` and what the call did
RECURSIVE EmitAllLoop(_, _, _, _)
EmitAllLoop(map, f, rest, acc) ==
    IF rest = << >> THEN { acc }
    ELSE IF ~passes(f, Head(rest).level)
    THEN EmitAllLoop(map, f, Tail(rest), acc)
    ELSE UNION { IF r.panicked
                 THEN { EmitAllStep(acc, Head(rest), r) }
                 ELSE EmitAllLoop(map, f, Tail(rest), EmitAllStep(acc, Head(rest), r))
                 : r \in EmitFancyOutcomes(map, Head(rest)) }

\* variant: eof_span returns the empty span at the end of the file
eof_span_Empty(map, key) ==
    IF ~SlotMapGet(map, key).some THEN Panic
    ELSE Val(Span(key, file_len(SlotMapGet(map, key).val.lookup),
                  file_len(SlotMapGet(map, key).val.lookup)))

\* eof_span (334-347): expect on lookups.get(key), then eof..eof + 1
eof_span(map, key) ==
    IF ~SlotMapGet(map, key).some THEN Panic
    ELSE Val(Span(key, file_len(SlotMapGet(map, key).val.lookup),
                  file_len(SlotMapGet(map, key).val.lookup) + 1))

\* location (266-275): expect on lookups.get(span.lookup()), then line_col of
\* the start of the span
location(map, span) ==
    IF ~SlotMapGet(map, span.lookup).some THEN Panic
    ELSE Val([line |-> line_col(SlotMapGet(map, span.lookup).val.lookup, span.start)[1],
              column |-> line_col(SlotMapGet(map, span.lookup).val.lookup, span.start)[2]])

\* the keys a caller holds, each with the reporter that issued it
HeldKeys ==
    { << issued[i], "self" >> : i \in 1..Len(issued) }
    \cup { << SlotMapInsertKey(SubSeq(others, 1, i - 1), others[i]), "other" >>
           : i \in 1..Len(others) }

\* what a query call leaves in probe
Answer(op, args, r) ==
    IF r.panicked THEN Panicked(op, args) ELSE Returned(op, args, r.val)

\* variant: the table is keyed by the file's name, a second registration of
\* a name replaces the first
XRegisterFile_ReplacesSameName ==
    /\ pc[Owner] = "idle"
    /\ files < MaxFiles
    /\ files' = files + 1
    /\ \E name \in Names, contents \in Contents :
         LET entry == [name |-> name, lookup |-> LookupNew(contents)]
             same == {i \in 1..Len(lookups) : lookups[i].name = name}
         IN  IF same = {}
             THEN /\ lookups' = Append(lookups, entry)
                  /\ issued' = Append(issued, Len(lookups) + 1)
             ELSE /\ lookups' = [lookups EXCEPT ![CHOOSE i \in same : TRUE] = entry]
                  /\ issued' = Append(issued, CHOOSE i \in same : TRUE)
    /\ UNCHANGED << filter, diagnostics, lockVars, pc, arg, emitVars, sinkVars,
                    made, calls, taken, writer, rewritten, pushed, fate, emitted >>
    /\ UNCHANGED queryVars

\* register_file (87-90)
XRegisterFile ==
    /\ pc[Owner] = "idle"
    /\ files < MaxFiles
    /\ files' = files + 1
    /\ \E name \in Names, contents \in Contents :
         lookups' = Append(lookups, [name |-> name, lookup |-> LookupNew(contents)])
    /\ issued' = Append(issued, SlotMapInsertKey(lookups, lookups'[Len(lookups')]))
    /\ UNCHANGED << filter, diagnostics, lockVars, pc, arg, emitVars, sinkVars,
                    made, calls, taken, writer, rewritten, pushed, fate, emitted >>
    /\ UNCHANGED queryVars

\* variant: report keeps only what passes the filter
XReport_FiltersAtReport ==
    /\ pc[Owner] = "idle"
    /\ made < MaxDiags
    /\ made' = made + 1
    /\ \E d \in NewDiagnostics(made + 1) :
         /\ diagnostics' = IF passes(filter, d.level) THEN Append(diagnostics, d)
                           ELSE diagnostics
         /\ pushed' = Append(pushed, << d >>)
         /\ fate' = Moved(<< d >>, "queued")
    /\ UNCHANGED << filter, lookups, lockVars, pc, arg, emitVars, sinkVars, files,
                    calls, taken, writer, rewritten, issued, emitted >>
    /\ UNCHANGED queryVars

\* report (280-282)
XReport ==
    /\ pc[Owner] = "idle"
    /\ made < MaxDiags
    /\ made' = made + 1
    /\ \E d \in NewDiagnostics(made + 1) :
         /\ diagnostics' = Append(diagnostics, d)
         /\ pushed' = Append(pushed, << d >>)
         /\ fate' = Moved(<< d >>, "queued")
    /\ UNCHANGED << filter, lookups, lockVars, pc, arg, emitVars, sinkVars, files,
                    calls, taken, writer, rewritten, issued, emitted >>
    /\ UNCHANGED queryVars

\* report_all (287-289)
XReportAll ==
    /\ pc[Owner] = "idle"
    /\ made + 2 <= MaxDiags
    /\ made' = made + 2
    /\ \E ds \in NewBatches :
         /\ diagnostics' = diagnostics \o ds
         /\ pushed' = Append(pushed, ds)
         /\ fate' = Moved(ds, "queued")
    /\ UNCHANGED << filter, lookups, lockVars, pc, arg, emitVars, sinkVars, files,
                    calls, taken, writer, rewritten, issued, emitted >>
    /\ UNCHANGED queryVars

\* variant: emit does not look at the filter
XEmit_Unfiltered ==
    /\ pc[Owner] = "idle"
    /\ made < MaxDiags
    /\ made' = made + 1
    /\ \E d \in NewDiagnostics(made + 1) :
         /\ emitted' = Some(d)
         /\ fate' = Moved(<< d >>, "emitted")
         /\ \E r \in EmitFancyOutcomes(lookups, d) :
               /\ output' = r.output
               /\ attempted' = << d >>
               /\ failures' = r.failures
               /\ returned' = IF r.panicked THEN NoReturn
                              ELSE Return("emit", r.res)
               /\ pc' = IF r.panicked THEN [pc EXCEPT ![Owner] = "panicked"]
                        ELSE pc
    /\ UNCHANGED << reporterVars, lockVars, arg, emitVars, files, calls, taken,
                    writer, rewritten, pushed, issued >>
    /\ UNCHANGED queryVars

\* emit (94-100)
XEmit ==
    /\ pc[Owner] = "idle"
    /\ made < MaxDiags
    /\ made' = made + 1
    /\ \E d \in NewDiagnostics(made + 1) :
         /\ emitted' = Some(d)
         /\ fate' = Moved(<< d >>, "emitted")
         /\ IF ~passes(filter, d.level)
            THEN /\ output' = << >>
                 /\ attempted' = << >>
                 /\ failures' = << >>
                 /\ returned' = Return("emit", OkResult)
                 /\ UNCHANGED pc
            ELSE \E r \in EmitFancyOutcomes(lookups, d) :
                  /\ output' = r.output
                  /\ attempted' = << d >>
                  /\ failures' = r.failures
                  /\ returned' = IF r.panicked THEN NoReturn
                                 ELSE Return("emit", r.res)
                  /\ pc' = IF r.panicked THEN [pc EXCEPT ![Owner] = "panicked"]
                           ELSE pc
    /\ UNCHANGED << reporterVars, lockVars, arg, emitVars, files, calls, taken,
                    writer, rewritten, pushed, issued >>
    /\ UNCHANGED queryVars

\* emit_all (107-124)
XEmitAll ==
    /\ pc[Owner] = "idle"
    /\ calls < MaxEmitAll
    /\ calls' = calls + 1
    /\ diagnostics' = << >>
    /\ taken' = diagnostics
    /\ pushed' = << >>
    /\ fate' = Moved(diagnostics, "taken")
    /\ \E r \in EmitAllLoop(lookups, filter, diagnostics,
                            [ output |-> << >>, attempted |-> << >>,
                              failures |-> << >>, result |-> OkResult,
                              panicked |-> FALSE ]) :
         /\ output' = r.output
         /\ attempted' = r.attempted
         /\ failures' = r.failures
         /\ returned' = IF r.panicked THEN NoReturn
                        ELSE Return("emit_all", r.result)
         /\ pc' = IF r.panicked THEN [pc EXCEPT ![Owner] = "panicked"] ELSE pc
         /\ writer' = [m \in DOMAIN writer |->
                         IF \E i \in 1..Len(r.attempted) : r.attempted[i].message = m
                         THEN calls + 1 ELSE writer[m]]
         /\ rewritten' = (rewritten \/
                          \E i \in 1..Len(r.attempted) :
                              writer[r.attempted[i].message] # 0)
    /\ UNCHANGED << filter, lookups, lockVars, arg, emitVars, made, files, issued,
                    emitted >>
    /\ UNCHANGED queryVars

(***************************************************************************)
(* The specifications.                                                     *)
(***************************************************************************)
Next ==
    \/ XRegisterFile
    \/ XReport
    \/ XReportAll
    \/ XEmit
    \/ XEmitAll

Spec == Init /\ [][Next]_vars

NextShared ==
    \/ \E t \in Workers : RegisterFileCall(t)
    \/ \E t \in Workers : RegisterFileLock(t)
    \/ \E t \in Workers : RegisterFileInsert(t)
    \/ \E t \in Workers : ReportCall(t)
    \/ \E t \in Workers : ReportLock(t)
    \/ \E t \in Workers : ReportPush(t)
    \/ \E t \in Workers : ReportAllCall(t)
    \/ \E t \in Workers : ReportAllLock(t)
    \/ \E t \in Workers : ReportAllAppend(t)
    \/ Emit
    \/ EmitAllCall
    \/ EmitAllLock
    \/ EmitAllSwap
    \/ EmitAllNext
    \/ EmitFancyMessage
    \/ PointerLock
    \/ PointerGet
    \/ EmitFancyPointer
    \/ EmitFancyNote
    \/ EmitFancyNewline

InitShared == Init /\ filter \in TaskFilters

SpecShared == InitShared /\ [][NextShared]_vars

(***************************************************************************)
(* The file table and its queries: the exclusive flavour with location and *)
(* eof_span, beside a second reporter whose keys the caller also holds.    *)
(***************************************************************************)
tableFrame ==
    << filter, diagnostics, lookups, dlock, llock, arg, snapshot, cur, caller,
       result, output, made, files, calls, taken, attempted, failures,
       returned, writer, rewritten, pushed, fate, emitted, issued, text >>

\* register_file (87-90) on the second reporter
XRegisterFileOther ==
    /\ pc[Owner] = "idle"
    /\ Len(others) < MaxOtherFiles
    /\ \E file \in OtherFiles :
         others' = Append(others, [name |-> file[1], lookup |-> LookupNew(file[2])])
    /\ UNCHANGED << tableFrame, pc, probe >>

\* location (266-275)
XLocation ==
    /\ pc[Owner] = "idle"
    /\ \E held \in HeldKeys, from \in LocationOffsets :
         LET span == Span(held[1], from, from + 1)
             r == location(lookups, span)
         IN  /\ probe' = Answer("location", << span, held[2] >>, r)
             /\ pc' = IF r.panicked THEN [pc EXCEPT ![Owner] = "panicked"] ELSE pc
    /\ UNCHANGED << tableFrame, others >>

\* eof_span (334-347)
XEofSpan ==
    /\ pc[Owner] = "idle"
    /\ \E held \in HeldKeys :
         LET r == eof_span(lookups, held[1])
         IN  /\ probe' = Answer("eof_span", << held[1], held[2] >>, r)
             /\ pc' = IF r.panicked THEN [pc EXCEPT ![Owner] = "panicked"] ELSE pc
    /\ UNCHANGED << tableFrame, others >>

\* emit (94-100) of an error whose span is made with a key of the second
\* reporter
XEmitSpanOfOther ==
    /\ pc[Owner] = "idle"
    /\ made < MaxDiags
    /\ made' = made + 1
    /\ \E held \in HeldKeys :
         LET d == Diagnostic("Error", made + 1, None, Some(Span(held[1], 0, 1)))
         IN  /\ held[2] = "other"
             /\ passes(filter, d.level)
             /\ emitted' = Some(d)
             /\ fate' = Moved(<< d >>, "emitted")
             /\ \E r \in EmitFancyOutcomes(lookups, d) :
                   /\ output' = r.output
                   /\ attempted' = << d >>
                   /\ failures' = r.failures
                   /\ returned' = IF r.panicked THEN NoReturn
                                  ELSE Return("emit", r.res)
                   /\ pc' = IF r.panicked THEN [pc EXCEPT ![Owner] = "panicked"]
                            ELSE pc
                   /\ probe' = IF r.panicked
                               THEN Panicked("emit", << d.span.val, held[2] >>)
                               ELSE Returned("emit", << d.span.val, held[2] >>,
                                             r.output)
    /\ UNCHANGED << reporterVars, lockVars, arg, emitVars, files, calls, taken,
                    writer, rewritten, pushed, issued, others, text >>

NextTable ==
    \/ XRegisterFile
    \/ XRegisterFileOther
    \/ XReport
    \/ XReportAll
    \/ XEmit
    \/ XEmitSpanOfOther
    \/ XEmitAll
    \/ XLocation
    \/ XEofSpan

\* TerminalReporter::filtered(emitter, LevelFilter::Error)
InitTable == Init /\ filter = "Error"

SpecTable == InitTable /\ [][NextTable]_vars

(***************************************************************************)
(* The queue and its queries: the exclusive flavour with has_errors and    *)
(* is_empty.                                                               *)
(***************************************************************************)
\* variant: only the first pending diagnostic is looked at
has_errors_FirstOnly(queue) ==
    queue # << >> /\ is_error(queue[1])

\* has_errors (293-297): any(|diagnostic| diagnostic.is_error())
has_errors(queue) ==
    \E i \in 1..Len(queue) : is_error(queue[i])

\* is_empty (301-303): Vec::is_empty
is_empty(queue) == Len(queue) = 0

queueFrame ==
    << filter, diagnostics, lookups, dlock, llock, pc, arg, snapshot, cur,
       caller, result, output, made, files, calls, taken, attempted, failures,
       returned, writer, rewritten, pushed, fate, emitted, issued, others,
       text >>

\* has_errors (293-297)
XHasErrors ==
    /\ pc[Owner] = "idle"
    /\ probe' = Returned("has_errors", << >>, has_errors(diagnostics))
    /\ UNCHANGED queueFrame

\* is_empty (301-303)
XIsEmpty ==
    /\ pc[Owner] = "idle"
    /\ probe' = Returned("is_empty", << >>, is_empty(diagnostics))
    /\ UNCHANGED queueFrame

NextQueue ==
    \/ XRegisterFile
    \/ XReport
    \/ XReportAll
    \/ XEmit
    \/ XEmitAll
    \/ XHasErrors
    \/ XIsEmpty

\* TerminalReporter::filtered(emitter, LevelFilter::Warn)
InitQueue == Init /\ filter = "Warn"

SpecQueue == InitQueue /\ [][NextQueue]_vars

(***************************************************************************)
(* The shared flavour with its queries (terminal.rs 379-393, 491-544): one *)
(* task registers and reports, one task asks has_errors, is_empty,         *)
(* location and eof_span, and the owner emits.  Every query takes the one  *)
(* lock of what it reads and drops it when it returns or unwinds.          *)
(***************************************************************************)
Reporters == {"w1"}
Askers == {"w2"}

\* what a query step leaves alone besides the locks and the positions
askFrame ==
    << filter, diagnostics, lookups, arg, snapshot, cur, caller, result, output,
       made, files, calls, taken, attempted, failures, returned, writer,
       rewritten, pushed, fate, emitted, issued, others, text >>

\* the key and the span the asking task holds: key 1 is the key of the first
\* registered file, and of no file while none is registered
AskedKey == 1
AskedSpan == Span(1, 3, 4)

\* has_errors (smol): 381-386
HasErrorsCall(t) ==
    /\ pc[t] = "idle"
    /\ pc' = [pc EXCEPT ![t] = "has_errors_lock"]
    /\ UNCHANGED << askFrame, lockVars, probe >>

\* self.diagnostics.lock().await
HasErrorsLock(t) ==
    /\ pc[t] = "has_errors_lock"
    /\ dlock = NoTask
    /\ dlock' = t
    /\ pc' = [pc EXCEPT ![t] = "has_errors_read"]
    /\ UNCHANGED << askFrame, llock, probe >>

\* variant: has_errors returns with the guard of the queue still alive
HasErrorsRead_KeepsGuard(t) ==
    /\ pc[t] = "has_errors_read"
    /\ dlock = t
    /\ probe' = Returned("has_errors", << >>, has_errors(diagnostics))
    /\ pc' = [pc EXCEPT ![t] = "idle"]
    /\ UNCHANGED << askFrame, lockVars >>

\* diagnostics.iter().any(..), the guard dropped on return
HasErrorsRead(t) ==
    /\ pc[t] = "has_errors_read"
    /\ dlock = t
    /\ probe' = Returned("has_errors", << >>, has_errors(diagnostics))
    /\ dlock' = NoTask
    /\ pc' = [pc EXCEPT ![t] = "idle"]
    /\ UNCHANGED << askFrame, llock >>

\* is_empty (smol): 390-393
IsEmptyCall(t) ==
    /\ pc[t] = "idle"
    /\ pc' = [pc EXCEPT ![t] = "is_empty_lock"]
    /\ UNCHANGED << askFrame, lockVars, probe >>

\* self.diagnostics.lock().await
IsEmptyLock(t) ==
    /\ pc[t] = "is_empty_lock"
    /\ dlock = NoTask
    /\ dlock' = t
    /\ pc' = [pc EXCEPT ![t] = "is_empty_read"]
    /\ UNCHANGED << askFrame, llock, probe >>

\* diagnostics.is_empty(), the guard dropped on return
IsEmptyRead(t) ==
    /\ pc[t] = "is_empty_read"
    /\ dlock = t
    /\ probe' = Returned("is_empty", << >>, is_empty(diagnostics))
    /\ dlock' = NoTask
    /\ pc' = [pc EXCEPT ![t] = "idle"]
    /\ UNCHANGED << askFrame, llock >>

\* location (smol): 491-501
LocationCall(t) ==
    /\ pc[t] = "idle"
    /\ pc' = [pc EXCEPT ![t] = "location_lock"]
    /\ UNCHANGED << askFrame, lockVars, probe >>

\* self.lookups.lock().await
LocationLock(t) ==
    /\ pc[t] = "location_lock"
    /\ llock = NoTask
    /\ llock' = t
    /\ pc' = [pc EXCEPT ![t] = "location_read"]
    /\ UNCHANGED << askFrame, dlock, probe >>

\* lookups.get(..).expect(..) and line_col; the guard is dropped when location
\* returns and when the expect unwinds
LocationRead(t) ==
    /\ pc[t] = "location_read"
    /\ llock = t
    /\ probe' = Answer("location", << AskedSpan, "self" >>,
                       location(lookups, AskedSpan))
    /\ llock' = NoTask
    /\ pc' = [pc EXCEPT ![t] = IF location(lookups, AskedSpan).panicked
                                 THEN "panicked" ELSE "idle"]
    /\ UNCHANGED << askFrame, dlock >>

\* eof_span (smol): 532-544
EofSpanCall(t) ==
    /\ pc[t] = "idle"
    /\ pc' = [pc EXCEPT ![t] = "eof_span_lock"]
    /\ UNCHANGED << askFrame, lockVars, probe >>

\* self.lookups.lock().await
EofSpanLock(t) ==
    /\ pc[t] = "eof_span_lock"
    /\ llock = NoTask
    /\ llock' = t
    /\ pc' = [pc EXCEPT ![t] = "eof_span_read"]
    /\ UNCHANGED << askFrame, dlock, probe >>

\* lookups.get(key).expect(..) and file_len; the guard is dropped when
\* eof_span returns and when the expect unwinds
EofSpanRead(t) ==
    /\ pc[t] = "eof_span_read"
    /\ llock = t
    /\ probe' = Answer("eof_span", << AskedKey, "self" >>,
                       eof_span(lookups, AskedKey))
    /\ llock' = NoTask
    /\ pc' = [pc EXCEPT ![t] = IF eof_span(lookups, AskedKey).panicked
                                 THEN "panicked" ELSE "idle"]
    /\ UNCHANGED << askFrame, dlock >>

\* the steps with which task t takes a lock, and the steps it takes inside
\* an operation otherwise
Acquire(t) ==
    \/ RegisterFileLock(t)
    \/ ReportLock(t)
    \/ ReportAllLock(t)
    \/ HasErrorsLock(t)
    \/ IsEmptyLock(t)
    \/ LocationLock(t)
    \/ EofSpanLock(t)

Proceed(t) ==
    \/ RegisterFileInsert(t)
    \/ ReportPush(t)
    \/ ReportAllAppend(t)
    \/ HasErrorsRead(t)
    \/ IsEmptyRead(t)
    \/ LocationRead(t)
    \/ EofSpanRead(t)

OwnerAcquire ==
    \/ EmitAllLock
    \/ PointerLock

OwnerProceed ==
    \/ EmitAllSwap
    \/ EmitAllNext
    \/ EmitFancyMessage
    \/ PointerGet
    \/ EmitFancyPointer
    \/ EmitFancyNote
    \/ EmitFancyNewline

\* the reports and the files of the runs with all nine operations
MaxLockDiags == 2
MaxLockFiles == 1

NextLocks ==
    \/ \E t \in Reporters : files < MaxLockFiles /\ RegisterFileCall(t)
    \/ \E t \in Reporters : made < MaxLockDiags /\ ReportCall(t)
    \/ \E t \in Reporters : made + 2 <= MaxLockDiags /\ ReportAllCall(t)
    \/ \E t \in Askers : HasErrorsCall(t)
    \/ \E t \in Askers : IsEmptyCall(t)
    \/ \E t \in Askers : LocationCall(t)
    \/ \E t \in Askers : EofSpanCall(t)
    \/ \E t \in Workers : Acquire(t)
    \/ \E t \in Workers : Proceed(t)
    \/ made < MaxLockDiags /\ Emit
    \/ EmitAllCall
    \/ OwnerAcquire
    \/ OwnerProceed

\* the owner drains while one task registers and reports
NextDrain ==
    \/ \E t \in Reporters : RegisterFileCall(t)
    \/ \E t \in Reporters : RegisterFileLock(t)
    \/ \E t \in Reporters : RegisterFileInsert(t)
    \/ \E t \in Reporters : ReportCall(t)
    \/ \E t \in Reporters : ReportLock(t)
    \/ \E t \in Reporters : ReportPush(t)
    \/ \E t \in Reporters : ReportAllCall(t)
    \/ \E t \in Reporters : ReportAllLock(t)
    \/ \E t \in Reporters : ReportAllAppend(t)
    \/ Emit
    \/ EmitAllCall
    \/ EmitAllLock
    \/ EmitAllSwap
    \/ EmitAllNext
    \/ EmitFancyMessage
    \/ PointerLock
    \/ PointerGet
    \/ EmitFancyPointer
    \/ EmitFancyNote
    \/ EmitFancyNewline

\* TerminalReporter::new: the filter is Debug
InitLocks == Init /\ filter = "Debug"

\* The scheduling: a task that can go on inside an operation does go on (the
\* executor polls every woken task, and a write to the emitter ends), and a
\* task that waits for a lock gets it when the lock is free again and again
\* (the mutex hands over to a starved waiter).  Whether a task makes another
\* call is up to the task.
FairLocks ==
    /\ \A t \in Workers : WF_vars(Proceed(t))
    /\ \A t \in Workers : SF_vars(Acquire(t))
    /\ WF_vars(OwnerProceed)
    /\ SF_vars(OwnerAcquire)

SpecLocks == InitLocks /\ [][NextLocks]_vars /\ FairLocks

SpecDrain == InitLocks /\ [][NextDrain]_vars /\ FairLocks

(***************************************************************************)
(* Lookup and Span on their own: lookup.rs, span.rs.  A Lookup is built    *)
(* from a source text and then queried; two spans are merged.              *)
(***************************************************************************)
\* emit_fancy (126-162) when the sink accepts every write: the chunks written,
\* each with what its format string is filled with.  The note handed to
\* pointer is the spanned one (131-137); the trailing note line is written for
\* an unspanned note only (147), its marker right-aligned in note_offset
\* columns.
emit_fancy(map, d, checked) ==
    LET note == IF d.note.some /\ d.note.val.span.some
                THEN Some(<< d.note.val.value, d.note.val.span.val >>)
                ELSE None
        drawn == pointer(map, d.span.val, note, color(d.level), checked)
        note_offset == IF d.span.some THEN drawn.val.offset + 1
                       ELSE TitleLen(d.level) + 1
    IN  IF d.span.some /\ drawn.panicked THEN Panic
        ELSE Val(<< [part |-> "message", title |-> title(d.level),
                     message |-> d.message] >>
                 \o (IF d.span.some
                     THEN << [part |-> "pointer", pointer |-> drawn.val] >>
                     ELSE << >>)
                 \o (IF UnspannedNote(d)
                     THEN << [part |-> "note", marker |-> note_offset,
                              value |-> d.note.val.value] >>
                     ELSE << >>)
                 \o (IF WantsNewline(d) THEN << [part |-> "newline"] >>
                     ELSE << >>))

\* TerminalReporter::emit (94-100) into an emitter made by new_emitter
\* (28-33): AutoStream::auto looks at the destination once, when the
\* reporter is made, and from then on keeps or strips the escape codes of
\* what is written; emit looks at the filter and calls emit_fancy
TerminalEmit(map, f, is_terminal, d, checked) ==
    IF ~passes(f, d.level) THEN Val([colored |-> is_terminal, chunks |-> << >>])
    ELSE IF emit_fancy(map, d, checked).panicked THEN Panic
    ELSE Val([colored |-> is_terminal,
              chunks |-> emit_fancy(map, d, checked).val])

\* SerialReporter::pointer (serial.rs 193-274): the last line is read at
\* lines.end, which panics when no line has that index (lookup.rs 57), and
\* the end column and the length of the start pointer are subtractions that
\* can go below zero
SerialPointer(map, span, arrow_color, checked) ==
    LET got == SlotMapGet(map, span.lookup)
        lookup == got.val.lookup
        spanned == lines(lookup, Range(span.start, span.end))
        line_no == spanned.start + 1
        col_no == col_from_line(lookup, spanned.start, span.start) + 1
    IN  IF ~got.some THEN Panic
        ELSE IF RangeLen(spanned) > 1
        THEN IF spanned.end + 1 > Len(lookup.heads) THEN Panic
             ELSE LET start == trim_end(line(lookup, spanned.start))
                      end == trim_end(line(lookup, spanned.end))
                      end_col == col_from_line(lookup, spanned.end, span.end)
                  IN  IF checked /\ (end_col < 0 \/ Len(end) < col_no) THEN Panic
                      ELSE Val([layout |-> "multi-line",
                                name |-> got.val.name,
                                line_n |-> line_no,
                                col_n |-> col_no,
                                start_n |-> spanned.start + 1,
                                start |-> start,
                                start_pointer |-> [blanks |-> col_no - 1,
                                                   carets |-> Len(end) - col_no],
                                end_n |-> spanned.end + 1,
                                end |-> end,
                                end_pointer |-> [carets |-> end_col],
                                color |-> arrow_color,
                                offset |-> ilog10(spanned.end + 1) + 2])
        ELSE Val([layout |-> "single-line",
                  name |-> got.val.name,
                  line_n |-> line_no,
                  col_n |-> col_no,
                  n |-> line_no,
                  line |-> trim_end(line(lookup, spanned.start)),
                  pointer |-> [blanks |-> col_no - 1,
                               carets |-> span.end - span.start],
                  color |-> arrow_color,
                  offset |-> ilog10(spanned.start + 1) + 2])

\* SerialReporter::emit_fancy (serial.rs 122-153): the trailing note line is
\* written for every note
SerialEmitFancy(map, d, checked) ==
    LET drawn == SerialPointer(map, d.span.val, color(d.level), checked)
        note_offset == IF d.span.some THEN drawn.val.offset + 1
                       ELSE TitleLen(d.level) + 1
    IN  IF d.span.some /\ drawn.panicked THEN Panic
        ELSE Val(<< [part |-> "message", title |-> title(d.level),
                     message |-> d.message] >>
                 \o (IF d.span.some
                     THEN << [part |-> "pointer", pointer |-> drawn.val] >>
                     ELSE << >>)
                 \o (IF d.note.some
                     THEN << [part |-> "note", marker |-> note_offset,
                              value |-> d.note.val.value] >>
                     ELSE << >>)
                 \o (IF WantsNewline(d) THEN << [part |-> "newline"] >>
                     ELSE << >>))

\* SerialReporter::raw_emit (serial.rs 104-108): one line, title and message
raw_emit(d) ==
    Val(<< [part |-> "raw", title |-> title(d.level), message |-> d.message] >>)

\* SerialReporter::emit (serial.rs 38-48): `if emitter.is_terminal()` chooses
\* emit_fancy or raw_emit
SerialEmit(map, is_terminal, d, checked) ==
    LET written == IF is_terminal THEN SerialEmitFancy(map, d, checked)
                   ELSE raw_emit(d)
    IN  IF written.panicked THEN Panic
        ELSE Val([colored |-> is_terminal, chunks |-> written.val])

\* The diagnostics handed to the renderer: with and without a span, without a
\* note, with an unspanned note and with a note that has its own span.
RenderDiagnostics ==
    { Diagnostic("Error", 1, None, Some(Span(1, 0, 1))),
      Diagnostic("Warn", 1, Some(Note("n", None)), Some(Span(1, 0, 1))),
      Diagnostic("Info", 1, Some(Note("n", None)), None),
      Diagnostic("Debug", 1, Some(Note("n", Some(Span(1, 0, 1)))), Some(Span(1, 0, 2))),
      Diagnostic("Error", 1, Some(Note("n", Some(Span(1, 0, 1)))), None),
      Diagnostic("Warn", 1, None, None) }

lookupFrame ==
    << filter, diagnostics, lookups, dlock, llock, pc, arg, snapshot, cur,
       caller, result, output, made, files, calls, taken, attempted, failures,
       returned, writer, rewritten, pushed, fate, emitted, issued, others >>

\* Lookup::new (14-27)
LookupNewCall ==
    /\ \E source \in Sources :
         /\ text' = Some(LookupNew(source))
         /\ probe' = Returned("new", << source >>, LookupNew(source))
    /\ UNCHANGED lookupFrame

\* Lookup::line_n (29-34)
LineNCall ==
    /\ text.some
    /\ \E index \in Offsets :
         probe' = Returned("line_n", << index >>, line_n(text.val, index))
    /\ UNCHANGED << lookupFrame, text >>

\* Lookup::line_col (37-42)
LineColCall ==
    /\ text.some
    /\ \E index \in Offsets :
         probe' = Returned("line_col", << index >>, line_col(text.val, index))
    /\ UNCHANGED << lookupFrame, text >>

\* Lookup::lines (61-75)
LinesCall ==
    /\ text.some
    /\ \E from \in Offsets, to \in Offsets :
         /\ from <= to
         /\ probe' = Returned("lines", << from, to >>,
                              lines(text.val, Range(from, to)))
    /\ UNCHANGED << lookupFrame, text >>

\* pointer on a span of the text: the choice of the layout (172-176)
PointerLayoutCall ==
    /\ text.some
    /\ \E from \in Offsets, to \in Offsets :
         /\ from <= to
         /\ probe' = Returned("pointer", << from, to >>,
                              PointerLayout(text.val, Span(1, from, to)))
    /\ UNCHANGED << lookupFrame, text >>

\* the file table of a reporter in which the text is the one registered file
TextTable == << [name |-> "a.txt", lookup |-> text.val] >>

\* pointer (164-248) on a span of the text, in a build with and in a build
\* without overflow checks
PointerCall ==
    /\ text.some
    /\ \E from \in Offsets, to \in Offsets, checked \in BOOLEAN :
         /\ from <= to
         /\ probe' = Answer("render", << from, to, checked >>,
                            pointer(TextTable, Span(1, from, to), None, "Red",
                                    checked))
    /\ UNCHANGED << lookupFrame, text >>

\* TerminalReporter::emit (94-100) of a diagnostic about the text, into a
\* destination that is or is not a terminal
TerminalEmitCall ==
    /\ text.some
    /\ \E d \in RenderDiagnostics, is_terminal \in BOOLEAN, checked \in BOOLEAN :
         probe' = Answer("emit", << d, is_terminal, checked >>,
                         TerminalEmit(TextTable, filter, is_terminal, d, checked))
    /\ UNCHANGED << lookupFrame, text >>

\* SerialReporter::emit (serial.rs 38-48) of the same
SerialEmitCall ==
    /\ text.some
    /\ \E d \in RenderDiagnostics, is_terminal \in BOOLEAN, checked \in BOOLEAN :
         probe' = Answer("serial_emit", << d, is_terminal, checked >>,
                         SerialEmit(TextTable, is_terminal, d, checked))
    /\ UNCHANGED << lookupFrame, text >>

\* Span::to (175-183)
SpanToCall ==
    /\ \E self \in ToSpans, other \in ToSpans :
         probe' = IF SpanTo(self, other).panicked
                  THEN Panicked("to", << self, other >>)
                  ELSE Returned("to", << self, other >>, SpanTo(self, other).val)
    /\ UNCHANGED << lookupFrame, text >>

NextLookup ==
    \/ LookupNewCall
    \/ LineNCall
    \/ LineColCall
    \/ LinesCall
    \/ PointerLayoutCall
    \/ PointerCall
    \/ TerminalEmitCall
    \/ SerialEmitCall
    \/ SpanToCall

InitLookup == Init /\ filter = "Debug"

SpecLookup == InitLookup /\ [][NextLookup]_vars

(***************************************************************************)
(* Properties.                                                             *)
(***************************************************************************)
\* the subsequence of seq whose level passes f, in order
RECURSIVE Filtered(_, _)
Filtered(seq, f) ==
    IF seq = << >> THEN << >>
    ELSE IF passes(f, Head(seq).level)
    THEN << Head(seq) >> \o Filtered(Tail(seq), f)
    ELSE Filtered(Tail(seq), f)

\* the chunks that reach the sink when every diagnostic of seq is written whole
RECURSIVE Rendered(_)
Rendered(seq) ==
    IF seq = << >> THEN << >>
    ELSE [i \in 1..Len(WritesOf(Head(seq))) |->
             << Head(seq).message, WritesOf(Head(seq))[i] >>]
         \o Rendered(Tail(seq))

Levels(seq) == [i \in 1..Len(seq) |-> seq[i].level]

InSeq(x, seq) == \E i \in 1..Len(seq) : seq[i] = x

\* the severity order of the claim: a lower rank is more severe
LevelRank(level) ==
    CASE level = "Error" -> 1 [] level = "Warn" -> 2
      [] level = "Info" -> 3 [] level = "Debug" -> 4

FilterRank(f) == IF f = "Off" THEN 0 ELSE LevelRank(f)

\* C2: when an emit_all call returns, the diagnostics it handed to the
\* renderer are exactly the diagnostics of the queue it took whose level
\* passes the reporter's filter, in queue order; and when no write failed the
\* sink received exactly the rendering of these, one diagnostic after the
\* other, and nothing else.
EmitAllWritesFilteredQueueInOrder ==
    returned.op = "emit_all" =>
        /\ attempted = Filtered(taken, filter)
        /\ failures = << >> => output = Rendered(Filtered(taken, filter))

\* scenario E: [Error, Debug, Warn] under filter Warn writes Error then Warn
ScenarioEWritesErrorThenWarn ==
    /\ returned.op = "emit_all"
    /\ filter = "Warn"
    /\ Levels(taken) = << "Error", "Debug", "Warn" >>
    /\ Levels(attempted) = << "Error", "Warn" >>
    /\ failures = << >>
    /\ output = << << 1, "message" >>, << 1, "pointer" >>, << 1, "newline" >>,
                   << 3, "message" >> >>

\* C3: when an emit_all call returns, every diagnostic of the queue it took
\* that passes the filter was handed to the renderer and had its first write
\* tried, also after an earlier write failed; the queue holds only what was
\* reported after the call; and the call returned Ok exactly when no write
\* failed.
EmitAllGoesOnAfterFailure ==
    returned.op = "emit_all" =>
        /\ attempted = Filtered(taken, filter)
        /\ \A i \in 1..Len(attempted) :
               \/ InSeq(<< attempted[i].message, "message" >>, output)
               \/ InSeq(<< attempted[i].message, "message" >>, failures)
        /\ diagnostics = Flatten(pushed)
        /\ returned.res.ok <=> failures = << >>

\* a write of the first diagnostic failed, the second one was written whole,
\* the queue is empty and the call returned an error
LaterDiagnosticWrittenAfterFailure ==
    /\ returned.op = "emit_all"
    /\ Len(attempted) = 2
    /\ Len(failures) = 1
    /\ failures[1][1] = attempted[1].message
    /\ \A i \in 1..Len(WritesOf(attempted[2])) :
           InSeq(<< attempted[2].message, WritesOf(attempted[2])[i] >>, output)
    /\ diagnostics = << >>
    /\ ~returned.res.ok

\* C4, as stated: when writes failed during an emit_all call, the error it
\* returns is the one of the first failed write.
EmitAllReturnsFirstFailure ==
    returned.op = "emit_all" /\ failures # << >> =>
        returned.res = ErrResult(failures[1][1], failures[1][2])

\* C4, as amended: when writes failed during an emit_all call, the error it
\* returns is the one of the last failed write.
EmitAllReturnsLastFailure ==
    returned.op = "emit_all" /\ failures # << >> =>
        returned.res = ErrResult(failures[Len(failures)][1],
                                 failures[Len(failures)][2])

\* an emit_all call during which the writes of two diagnostics failed
TwoDiagnosticsFailed ==
    /\ returned.op = "emit_all"
    /\ Len(failures) = 2
    /\ failures[1][1] # failures[2][1]
    /\ ~returned.res.ok

\* C5: passes is the threshold relation over Off < Error < Warn < Info <
\* Debug: a filter passes exactly the levels at or above its own severity,
\* so it passes every level more severe than one it passes, and every more
\* permissive filter passes what it passes; and the reporter's emissions
\* follow it: emit hands its diagnostic to the renderer, and emit_all a
\* diagnostic of the queue it took, exactly when the level's rank is at most
\* the filter's.
PassesIsThreshold ==
    /\ \A f \in LevelFilter, level \in Level :
           passes(f, level) <=> LevelRank(level) <= FilterRank(f)
    /\ \A f \in LevelFilter, l1, l2 \in Level :
           passes(f, l1) /\ LevelRank(l2) <= LevelRank(l1) => passes(f, l2)
    /\ \A f, g \in LevelFilter, level \in Level :
           passes(f, level) /\ FilterRank(f) <= FilterRank(g) => passes(g, level)
    /\ returned.op = "emit" =>
           (attempted = << emitted.val >>
                <=> LevelRank(emitted.val.level) <= FilterRank(filter))
    /\ returned.op = "emit_all" =>
           \A i \in 1..Len(taken) :
               InSeq(taken[i], attempted)
                   <=> LevelRank(taken[i].level) <= FilterRank(filter)

\* under filter Info an emit_all call wrote the Info and the Warn diagnostic
\* of its queue and dropped the Debug one
InfoFilterDropsDebugOnly ==
    /\ returned.op = "emit_all"
    /\ filter = "Info"
    /\ Levels(taken) = << "Debug", "Info", "Warn" >>
    /\ Levels(attempted) = << "Info", "Warn" >>


\* C6: every emit call leaves the pending queue, the file table and the
\* filter as they were, whether its diagnostic passes the filter or not; and
\* when the diagnostic's level is below the filter the call tries no write,
\* nothing reaches the sink, and it returns Ok.
EmitDropsSilentlyAndKeepsState ==
    [][ emitted' # emitted =>
            /\ UNCHANGED << diagnostics, lookups, filter >>
            /\ LevelRank(emitted'.val.level) > FilterRank(filter) =>
                   /\ output' = << >>
                   /\ attempted' = << >>
                   /\ failures' = << >>
                   /\ returned' = Return("emit", OkResult) ]_vars

\* an emit call dropped its diagnostic while the queue and the file table
\* were not empty
DroppedEmitWithPendingQueue ==
    /\ returned = Return("emit", OkResult)
    /\ emitted.some
    /\ ~passes(filter, emitted.val.level)
    /\ output = << >>
    /\ diagnostics # << >>
    /\ lookups # << >>

\* the batch the last report / report_all call was given
LastPushed == pushed[Len(pushed)]

\* C7: every report and report_all call is accepted whatever the diagnostic's
\* level and span, and the step it takes leaves the queue as the old queue
\* followed by the diagnostics given, in the order given; it changes neither
\* the filter nor the file table, writes nothing and returns normally.
ReportAppendsAndNothingElse ==
    /\ [](pc[Owner] = "idle" /\ made < MaxDiags =>
              \A d \in NewDiagnostics(made + 1) :
                  ENABLED (XReport /\ diagnostics' = Append(diagnostics, d)))
    /\ [](pc[Owner] = "idle" /\ made + 2 <= MaxDiags =>
              \A ds \in NewBatches :
                  ENABLED (XReportAll /\ diagnostics' = diagnostics \o ds))
    /\ [][ Len(pushed') = Len(pushed) + 1 =>
               /\ diagnostics' = diagnostics \o LastPushed'
               /\ UNCHANGED << filter, lookups, output, attempted, failures,
                               returned, pc >> ]_vars

\* the queue holds, behind an earlier entry, a batch of two given to
\* report_all in which one diagnostic is below the filter and one has a span
\* of a file that is not registered
QueueHoldsDroppableAndUnregistered ==
    /\ Len(pushed) = 2
    /\ Len(LastPushed) = 2
    /\ diagnostics = pushed[1] \o LastPushed
    /\ \E i \in 1..2 : ~passes(filter, LastPushed[i].level)
    /\ \E i \in 1..2 : PointerPanics(lookups, LastPushed[i])

\* the number of places message m has in seq
Count(m, seq) == Cardinality({i \in 1..Len(seq) : seq[i].message = m})

\* seq is what is left of whole after some of its first entries are gone
IsSuffix(seq, whole) ==
    /\ Len(seq) <= Len(whole)
    /\ seq = SubSeq(whole, Len(whole) - Len(seq) + 1, Len(whole))

\* the positions of the owner at which it is inside an emit_all call
EmitAllRunning ==
    \/ pc[Owner] \in {"emit_all_lock", "emit_all_swap", "emit_all_loop"}
    \/ caller = "emit_all"

\* C1: the step with which emit_all takes its snapshot takes the whole queue,
\* the entries the filter will drop too, and leaves the queue empty; from
\* then on the queue holds exactly what report / report_all appended after
\* the snapshot, so a report that completes during the call is in the queue
\* when the call returns and is in the snapshot of the next call; a taken
\* diagnostic is in the queue no more, what is left to iterate is a tail of
\* the snapshot, and no diagnostic is written by two emit_all calls.
EmitAllTakesWholeQueueOnce ==
    /\ [][ pc[Owner] = "emit_all_swap" /\ pc'[Owner] = "emit_all_loop" =>
               /\ taken' = diagnostics
               /\ snapshot' = diagnostics
               /\ diagnostics' = << >> ]_vars
    /\ [](diagnostics = Flatten(pushed))
    /\ [](\A m \in 1..MaxDiags :
              /\ fate[m] = "queued" <=> Count(m, diagnostics) = 1
              /\ fate[m] # "queued" => Count(m, diagnostics) = 0
              /\ writer[m] # 0 => fate[m] = "taken")
    /\ [](EmitAllRunning => IsSuffix(snapshot, taken))
    /\ [](~rewritten)

\* the second emit_all call has written a diagnostic and is about to return,
\* an earlier call wrote another one, and a diagnostic reported after the
\* second snapshot waits in the queue
SecondEmitAllLeavesLateReport ==
    /\ calls = 2
    /\ pc[Owner] = "emit_all_loop"
    /\ snapshot = << >>
    /\ \E m \in 1..MaxDiags : writer[m] = 1
    /\ \E m \in 1..MaxDiags : writer[m] = 2
    /\ diagnostics # << >>

\* the positions of the owner at which a write to the emitter is in progress
WritePcs ==
    {"emit_fancy_message", "emit_fancy_pointer", "emit_fancy_note",
     "emit_fancy_newline"}

\* C8: while a write to the emitter is in progress the owner holds neither
\* the lock of the queue nor the lock of the file table; it holds the lock of
\* the queue only at the swap of emit_all, and the lock of the file table
\* only at the lookup of pointer.
NoLockHeldWhileWriting ==
    /\ pc[Owner] \in WritePcs => dlock # Owner /\ llock # Owner
    /\ dlock = Owner => pc[Owner] = "emit_all_swap"
    /\ llock = Owner => pc[Owner] = "pointer_get"

\* emit_all is about to write the pointer of a diagnostic, after it held and
\* released both locks, while a reporting task holds the lock of the queue
PointerWriteWhileWorkerHoldsQueue ==
    /\ pc[Owner] = "emit_fancy_pointer"
    /\ caller = "emit_all"
    /\ output # << >>
    /\ dlock \in Workers

\* the diagnostics task t is about to append
InFlight(t) ==
    IF pc[t] \in {"report_lock", "report_push", "report_all_lock", "report_all_append"}
    THEN arg[t] ELSE << >>

\* C9: the queue is the concatenation of the batches of the report and
\* report_all calls, in the order in which they held the lock of the queue:
\* every batch is contiguous and in its given order, every diagnostic whose
\* report completed is in the queue exactly once until an emit_all takes it,
\* and emit_all hands the diagnostics to the renderer in that order.
QueueOrderIsLockOrder ==
    /\ diagnostics = Flatten(pushed)
    /\ \A m \in 1..MaxDiags :
           /\ Count(m, diagnostics) <= 1
           /\ fate[m] = "queued" => Count(m, diagnostics) = 1
           /\ fate[m] = "flight" => \E t \in Workers : Count(m, InFlight(t)) = 1
    /\ EmitAllRunning \/ returned.op = "emit_all" =>
           attempted \o Filtered(snapshot, filter) = Filtered(taken, filter)

\* the report of message 1 began first, but the report_all of messages 2 and
\* 3 held the lock first
LaterCallQueuedFirst ==
    Messages(diagnostics) = << 2, 3, 1 >>

\* C10: the keys register_file returned are pairwise different, one per
\* registration, and each names the slot of its own registration.
RegisteredKeysAreUnique ==
    /\ \A i, j \in 1..Len(issued) : i # j => issued[i] # issued[j]
    /\ Len(issued) = Len(lookups)
    /\ \A i \in 1..Len(issued) : SlotMapGet(lookups, issued[i]) = Some(lookups[i])

\* two tasks registered the same name and contents, each while the other's
\* call was under way, and got two keys
SameFileRegisteredTwice ==
    /\ Len(issued) = 2
    /\ lookups[1] = lookups[2]
    /\ files = 2

\* the source the examples of the specification use: "a\nbb\nccc"
ThreeLines == << "a", "\n", "b", "b", "\n", "c", "c", "c" >>

\* the span of file `key` over [from, to) when both spans are given
Covers(merged, a, b) ==
    /\ merged.start <= a.start /\ merged.start <= b.start
    /\ merged.start \in {a.start, b.start}
    /\ merged.end >= a.end /\ merged.end >= b.end
    /\ merged.end \in {a.end, b.end}

\* C12: a.to(b) for two spans of the same file returns the span of that file
\* that starts at the smaller of the two starts and ends at the greater of
\* the two ends, in whatever order and position the two spans are.
SpanToIsMinMax ==
    probe.op = "to" /\ probe.args[1].lookup = probe.args[2].lookup =>
        /\ ~probe.panicked
        /\ probe.res.lookup = probe.args[1].lookup
        /\ Covers(probe.res, probe.args[1], probe.args[2])

\* the later span [2,3) merged with the earlier, disjoint span [0,1)
LaterSpanToEarlierSpan ==
    /\ probe.op = "to"
    /\ probe.args = << Span(1, 2, 3), Span(1, 0, 1) >>
    /\ ~probe.panicked
    /\ probe.res = Span(1, 0, 3)

\* C13: a.to(b) for two spans with different file keys panics and returns
\* no span.
SpanToAcrossFilesPanics ==
    probe.op = "to" /\ probe.args[1].lookup # probe.args[2].lookup =>
        probe.panicked

\* a span of file 1 merged with a span of file 2
SpanOfFileOneToSpanOfFileTwo ==
    /\ probe.op = "to"
    /\ probe.args = << Span(1, 0, 1), Span(2, 2, 3) >>
    /\ probe.panicked

\* the start offset of line l, and the line an offset lies on: the greatest
\* line whose start is at or before the offset
LineStart(lookup, l) == lookup.heads[l + 1]
LastLine(lookup) == Len(lookup.heads) - 1
LineOf(lookup, o) ==
    CHOOSE l \in 0..LastLine(lookup) :
        /\ LineStart(lookup, l) <= o
        /\ \A k \in 0..LastLine(lookup) : LineStart(lookup, k) <= o => k <= l

\* the length of the text of line l, its newline not counted
LineLength(lookup, l) ==
    Cardinality({i \in 1..Len(line(lookup, l)) : line(lookup, l)[i] # "\n"})

\* C16: line_n(o) is the greatest line whose start offset is at most o: an
\* offset that is a line start gives that line, an offset at or after the
\* end of the text gives the last line; in "a\nbb\nccc" offset 0 is on line
\* 0, offset 2 on line 1 and offset 7 on line 2.
LineNIsGreatestStartAtOrBefore ==
    probe.op = "line_n" =>
        LET o == probe.args[1]
        IN  /\ probe.res \in 0..LastLine(text.val)
            /\ LineStart(text.val, probe.res) <= o
            /\ probe.res < LastLine(text.val) => LineStart(text.val, probe.res + 1) > o
            /\ o >= file_len(text.val) => probe.res = LastLine(text.val)
            /\ text.val.source = ThreeLines =>
                   /\ o = 0 => probe.res = 0
                   /\ o = 2 => probe.res = 1
                   /\ o = 7 => probe.res = 2

\* offset 2 of "a\nbb\nccc", the start of the second line, is on line 1
OffsetAtLineStartIsOnThatLine ==
    /\ probe.op = "line_n"
    /\ text.val.source = ThreeLines
    /\ probe.args = << 2 >>
    /\ probe.res = 1

\* C17: over the offsets from 0 to the length of the text line_n never
\* decreases; line_col(o) returns a line and a column with start of the line
\* + column = o and the column at most the length of the line's text; for
\* o = the length of the text the line is the last one and the column is the
\* length of the last line.
LineColIsWithinItsLine ==
    /\ text.some =>
           \A o1, o2 \in 0..file_len(text.val) :
               o1 <= o2 => line_n(text.val, o1) <= line_n(text.val, o2)
    /\ probe.op = "line_col" /\ probe.args[1] <= file_len(text.val) =>
           LET o == probe.args[1]
               l == probe.res[1]
               column == probe.res[2]
           IN  /\ l \in 0..LastLine(text.val)
               /\ LineStart(text.val, l) + column = o
               /\ column >= 0
               /\ column <= LineLength(text.val, l)
               /\ o = file_len(text.val) =>
                      /\ l = LastLine(text.val)
                      /\ column = LineLength(text.val, l)

\* the offset one past the end of "a\nbb\nccc" is line 2, column 3
EndOfTextIsLastLineLength ==
    /\ probe.op = "line_col"
    /\ text.val.source = ThreeLines
    /\ probe.args = << 8 >>
    /\ probe.res = << 2, 3 >>

\* C18: Lookup::new keeps the length of the text and every byte but the
\* tabs, which become one space each; the line starts begin with 0, are
\* strictly increasing, are one more than the newlines of the text, and each
\* one after the first is the offset right after a newline, every newline
\* having one.
LineStartsFollowNewlines ==
    probe.op = "new" =>
        LET given == probe.args[1]
            source == probe.res.source
            heads == probe.res.heads
            newlines == {i \in 1..Len(source) : source[i] = "\n"}
        IN  /\ text = Some(probe.res)
            /\ Len(source) = Len(given)
            /\ \A i \in 1..Len(given) :
                   source[i] = IF given[i] = "\t" THEN " " ELSE given[i]
            /\ heads[1] = 0
            /\ \A k \in 1..Len(heads) - 1 : heads[k] < heads[k + 1]
            /\ Len(heads) = Cardinality(newlines) + 1
            /\ {heads[k] : k \in 2..Len(heads)} = newlines

\* a text with tabs and four lines, the last newlines adjacent
TabsAndAdjacentNewlines ==
    /\ probe.op = "new"
    /\ probe.args = << << "\t", "\n", "\t", "\t", "\n", "\n", "x" >> >>
    /\ probe.res.heads = << 0, 2, 5, 6 >>
    /\ probe.res.source = << " ", "\n", " ", " ", "\n", "\n", "x" >>

\* a range [from, to) ends at or before the start of the line that follows
\* the line of `from` (the end of the text when no line follows)
EndsOnStartingLine(lookup, from, to) ==
    LET l == LineOf(lookup, from)
    IN  to <= (IF l < LastLine(lookup) THEN LineStart(lookup, l + 1)
               ELSE file_len(lookup))

\* C19: for a range inside the text, lines returns a range of exactly one
\* line when the range ends at or before the start of the line after its
\* starting line, and a range of more than one line otherwise, and pointer
\* chooses the single-line or the multi-line layout accordingly; offsets 2 to
\* 8 of "a\nbb\nccc" are multi-line.
LinesClassifiesSingleAndMultiLine ==
    /\ probe.op = "lines" /\ probe.args[2] <= file_len(text.val) =>
           IF EndsOnStartingLine(text.val, probe.args[1], probe.args[2])
           THEN RangeLen(probe.res) = 1
           ELSE RangeLen(probe.res) > 1
    /\ probe.op = "pointer" /\ probe.args[2] <= file_len(text.val) =>
           IF EndsOnStartingLine(text.val, probe.args[1], probe.args[2])
           THEN probe.res = "single-line"
           ELSE probe.res = "multi-line"

\* C20: for a non-empty range inside the text, lines returns the lines from
\* the line of its first offset through the line of its last offset, the
\* line with the greatest start at or before to - 1.
LinesReturnsFirstThroughLastLine ==
    probe.op = "lines" /\ probe.args[1] < probe.args[2]
                       /\ probe.args[2] <= file_len(text.val) =>
        probe.res = Range(LineOf(text.val, probe.args[1]),
                          LineOf(text.val, probe.args[2] - 1) + 1)

\* C11: a step changes the file table only by adding one entry at a new
\* slot, and only a register_file step does; every key issued before the step
\* resolves after it to the name and line index it resolved to before; and
\* the key a register_file step issues resolves to the entry it added.
FileTableIsAppendOnly ==
    [][ /\ \A i \in 1..Len(issued) :
               /\ SlotMapGet(lookups, issued[i]).some
               /\ SlotMapGet(lookups', issued[i]) = SlotMapGet(lookups, issued[i])
        /\ lookups' # lookups =>
               /\ files' = files + 1
               /\ Len(lookups') = Len(lookups) + 1
               /\ SubSeq(lookups', 1, Len(lookups)) = lookups
               /\ Len(issued') = Len(issued) + 1
               /\ SubSeq(issued', 1, Len(issued)) = issued
               /\ SlotMapGet(lookups', issued'[Len(issued')])
                      = Some(lookups'[Len(lookups')]) ]_vars

\* two files with different contents are registered, an emit_all call has
\* written a diagnostic with a span, and a query has run
TwoFilesAfterEmissionAndQuery ==
    /\ Len(issued) = 2
    /\ lookups[issued[1]].lookup # lookups[issued[2]].lookup
    /\ returned.op = "emit_all"
    /\ InSeq(<< 1, "pointer" >>, output)
    /\ probe.op = "eof_span"
    /\ ~probe.panicked

\* C14: eof_span of a key this reporter issued returns the span of that file
\* from the length of its tab-normalized source to one past it; for the
\* source "1 + " that is [4, 5).
EofSpanIsOneWideAtEnd ==
    probe.op = "eof_span" /\ probe.args[2] = "self" =>
        LET key == probe.args[1]
            source == lookups[key].lookup.source
        IN  /\ ~probe.panicked
            /\ probe.res.lookup = key
            /\ probe.res.start = Len(source)
            /\ probe.res.end = Len(source) + 1
            /\ probe.res.end - probe.res.start = 1
            /\ source = << "1", " ", "+", " " >> => probe.res = Span(key, 4, 5)

\* eof_span of the second file, whose source is "1 + "
EofSpanOfOnePlus ==
    /\ probe.op = "eof_span"
    /\ probe.args = << 2, "self" >>
    /\ lookups[2].lookup.source = << "1", " ", "+", " " >>
    /\ ~probe.panicked
    /\ probe.res = Span(2, 4, 5)

\* C15: eof_span and location of a key or span that the second reporter
\* issued, and emit of a diagnostic with such a span, panic, whatever this
\* reporter has registered; none returns a span or a location or writes a
\* snippet.
KeyOfOtherReporterPanics ==
    probe.op \in {"eof_span", "location", "emit"} /\ probe.args[2] = "other" =>
        probe.panicked

\* the column of offset o on its line
ColumnOf(lookup, o) == o - LineStart(lookup, LineOf(lookup, o))

\* a pointer call that returned, on a span within the bounds the renderer
\* assumes: start <= end <= length of the text + 1
Rendered_(layout) ==
    /\ probe.op = "render"
    /\ ~probe.panicked
    /\ probe.args[2] <= file_len(text.val) + 1
    /\ probe.res.layout = layout

\* C21: in the single-line layout the underline row has as many leading
\* blanks as the column of the span's start, followed by end - start
\* underline characters, and by one when the span is empty.
UnderlineIsSpanWideAndAtLeastOne ==
    Rendered_("single-line") =>
        /\ probe.res.pointer.blanks = ColumnOf(text.val, probe.args[1])
        /\ probe.res.pointer.underline =
               Max(probe.args[2] - probe.args[1], 1)
        /\ probe.res.pointer.underline >= 1

\* C22: the header of a rendered span shows the name of the file, the line
\* of the span's start + 1 and the column of the span's start + 1, in the
\* single-line and in the multi-line layout; the span eof_span returns for
\* the source "1 + " shows line 1, column 5.
HeaderShowsStartOneBased ==
    probe.op = "render" /\ ~probe.panicked =>
        /\ probe.res.layout \in {"single-line", "multi-line"}
        /\ probe.res.name = TextTable[1].name
        /\ probe.res.line_n = LineOf(text.val, probe.args[1]) + 1
        /\ probe.res.col_n = ColumnOf(text.val, probe.args[1]) + 1
        /\ text.val.source = << "1", " ", "+", " " >>
           /\ Span(1, probe.args[1], probe.args[2]) = eof_span(TextTable, 1).val =>
               probe.res.line_n = 1 /\ probe.res.col_n = 5

\* the span eof_span returns for "1 + " is rendered with the header 1:5
EofOfOnePlusShowsLineOneColumnFive ==
    /\ probe.op = "render"
    /\ ~probe.panicked
    /\ text.val.source = << "1", " ", "+", " " >>
    /\ probe.args[1] = 4 /\ probe.args[2] = 5
    /\ probe.res.layout = "single-line"
    /\ probe.res.line_n = 1
    /\ probe.res.col_n = 5

\* the text of line l as it is displayed: without its trailing white space
Displayed(lookup, l) == trim_end(line(lookup, l))

\* C23: in the multi-line layout the start connector has as many leading
\* dots as the column of the span's start and then runs to the end of the
\* right-trimmed first line, and the end connector runs from column 0 to the
\* span's end column on the last line, end minus the start of the line of
\* end - 1; the span 2..8 of "a\nbb\nccc" is rendered in the multi-line
\* layout with a start connector over columns 0 to 2 of "bb" and an end
\* connector over columns 0 to 3 of "ccc".
ConnectorsRunToLineEndAndEndColumn ==
    /\ Rendered_("multi-line") =>
           LET from == probe.args[1]
               to == probe.args[2]
               first == LineOf(text.val, from)
               last == LineOf(text.val, to - 1)
           IN  /\ probe.res.start = Displayed(text.val, first)
               /\ probe.res.start_pointer.dots = ColumnOf(text.val, from)
               /\ probe.res.start_pointer.dashes =
                      Len(Displayed(text.val, first)) - ColumnOf(text.val, from)
               /\ probe.res.start_pointer.dashes >= 0
               /\ probe.res.end = Displayed(text.val, last)
               /\ probe.res.end_pointer.dashes = to - LineStart(text.val, last)
    /\ probe.op = "render" /\ text.val.source = ThreeLines
       /\ probe.args[1] = 2 /\ probe.args[2] = 8 =>
           /\ ~probe.panicked
           /\ probe.res.layout = "multi-line"
           /\ probe.res.start = << "b", "b" >>
           /\ probe.res.start_pointer = [dots |-> 0, dashes |-> 2]
           /\ probe.res.end = << "c", "c", "c" >>
           /\ probe.res.end_pointer = [dashes |-> 3]

\* C29: in the multi-line layout the number beside the first displayed line
\* is the index of the span's first line + 1, the number beside the last
\* displayed line is the index of the span's last line + 1, each is the
\* 1-based number of the line whose text is displayed beside it, and the
\* gutter width is derived from the number beside the last line.
LineNumbersNameTheDisplayedLines ==
    Rendered_("multi-line") =>
        LET first == LineOf(text.val, probe.args[1])
            last == LineOf(text.val, probe.args[2] - 1)
        IN  /\ probe.res.start_n = first + 1
            /\ probe.res.start = Displayed(text.val, probe.res.start_n - 1)
            /\ probe.res.end_n = last + 1
            /\ probe.res.end_n - 1 <= LastLine(text.val)
            /\ probe.res.end = Displayed(text.val, probe.res.end_n - 1)
            /\ probe.res.offset = Max(ilog10(probe.res.end_n), 2) + 2

\* C30: for every span with start <= end <= length of the text + 1 pointer
\* returns, in a build that checks overflow too, and no length it computes
\* is the wrap-around of a subtraction below zero.
PointerNeverGoesBelowZero ==
    probe.op = "render" /\ probe.args[2] <= file_len(text.val) + 1 =>
        /\ ~probe.panicked
        /\ probe.res.layout = "multi-line" =>
               /\ probe.res.start_pointer.dots >= 0
               /\ probe.res.start_pointer.dashes >= 0
               /\ probe.res.end_pointer.dashes >= 0
        /\ probe.res.layout = "single-line" =>
               /\ probe.res.pointer.blanks >= 0
               /\ probe.res.pointer.underline >= 0

\* the chunks of a rendering that are of the part named
PartsOf(chunks, part) == {i \in 1..Len(chunks) : chunks[i].part = part}

\* C24: every note of a diagnostic that TerminalReporter::emit wrote is in
\* the output: a note with a span of its own is a secondary annotation of
\* the pointer chunk and there is no trailing note line; a note without a
\* span is one trailing note line with the text of the note, the last chunk
\* before the closing blank line, its marker aligned to the gutter of the
\* snippet (one column after the gutter width).
EveryNoteIsRendered ==
    probe.op = "emit" /\ ~probe.panicked /\ probe.args[1].note.some =>
        LET d == probe.args[1]
            chunks == probe.res.chunks
            note == d.note.val
        IN  IF note.span.some
            THEN /\ PartsOf(chunks, "note") = {}
                 /\ \E i \in PartsOf(chunks, "pointer") :
                        /\ "note" \in DOMAIN chunks[i].pointer
                        /\ chunks[i].pointer.note = note.value
            ELSE /\ PartsOf(chunks, "note") = {Len(chunks) - 1}
                 /\ chunks[Len(chunks)].part = "newline"
                 /\ chunks[Len(chunks) - 1].value = note.value
                 /\ \A i \in PartsOf(chunks, "pointer") :
                        chunks[Len(chunks) - 1].marker = chunks[i].pointer.offset + 1

\* what the plain layout of d is: one line, title and message
PlainLine(d) == << [part |-> "raw", title |-> title(d.level), message |-> d.message] >>

\* C25: emit of a diagnostic that passes the filter, by either reporter,
\* into a destination that is not a terminal writes exactly one line, the
\* title and the message, whatever span and note the diagnostic has; into a
\* terminal it writes the fancy layout: the message, the snippet when there
\* is a span, and the closing blank line when there is a span or a note.
PlainUnlessTerminal ==
    /\ probe.op \in {"emit", "serial_emit"}
    /\ ~probe.panicked
    /\ probe.op = "emit" => passes(filter, probe.args[1].level)
    =>  LET d == probe.args[1]
            is_terminal == probe.args[2]
            chunks == probe.res.chunks
        IN  IF ~is_terminal
            THEN chunks = PlainLine(d)
            ELSE /\ PartsOf(chunks, "raw") = {}
                 /\ PartsOf(chunks, "message") = {1}
                 /\ d.span.some <=> PartsOf(chunks, "pointer") = {2}
                 /\ d.span.some \/ d.note.some <=>
                        PartsOf(chunks, "newline") = {Len(chunks)}

\* the levels of the diagnostics that were reported and not yet taken by an
\* emit_all call, from the history of the reports
PendingLevels == { Flatten(pushed)[i].level : i \in 1..Len(Flatten(pushed)) }

\* C26: has_errors returns true exactly when a diagnostic of level Error is
\* pending and is_empty exactly when none is pending; when an emit_all call
\* has returned and nothing was reported since, has_errors is false and
\* is_empty is true, whatever the call wrote, dropped or failed to write;
\* and an emit call changes neither answer.
QueriesAnswerForThePendingQueue ==
    /\ [][ probe' # probe /\ probe'.op = "has_errors" =>
               probe'.res = ("Error" \in PendingLevels) ]_vars
    /\ [][ probe' # probe /\ probe'.op = "is_empty" =>
               probe'.res = (PendingLevels = {}) ]_vars
    /\ [](returned.op = "emit_all" /\ pushed = << >> =>
              ~has_errors(diagnostics) /\ is_empty(diagnostics))
    /\ [][ emitted' # emitted =>
               /\ has_errors(diagnostics') = has_errors(diagnostics)
               /\ is_empty(diagnostics') = is_empty(diagnostics) ]_vars

\* has_errors answered true while the first pending diagnostic is a warning
\* and an error is pending behind it, after an emit_all call that dropped and
\* wrote diagnostics
HasErrorsSeesErrorBehindWarning ==
    /\ probe.op = "has_errors"
    /\ probe.res = TRUE
    /\ Len(diagnostics) = 2
    /\ diagnostics[1].level = "Warn"
    /\ diagnostics[2].level = "Error"
    /\ calls = 1

\* the positions of the owner at which emit_all has taken its snapshot
EmitAllDraining ==
    \/ pc[Owner] = "emit_all_loop"
    \/ pc[Owner] \notin {"idle", "panicked"} /\ caller = "emit_all"

AwaitsQueue ==
    {"report_lock", "report_all_lock", "has_errors_lock", "is_empty_lock",
     "emit_all_lock"}

AwaitsTable ==
    {"register_lock", "location_lock", "eof_span_lock", "pointer_lock"}

\* the positions at which a task is inside the one critical section of its
\* operation
HoldsQueue ==
    {"report_push", "report_all_append", "has_errors_read", "is_empty_read",
     "emit_all_swap"}

HoldsTable ==
    {"register_insert", "location_read", "eof_span_read", "pointer_get"}

\* some task is inside an operation
SomeTaskBusy == \E t \in Tasks : pc[t] \notin {"idle", "panicked"}

\* a step inside an operation: every step but the calls
StepInside ==
    \/ \E t \in Workers : Acquire(t)
    \/ \E t \in Workers : Proceed(t)
    \/ OwnerAcquire
    \/ OwnerProceed

\* C28: in the shared flavour no task ever holds both locks; a task holds a
\* lock exactly while it is inside the critical section of its operation, so
\* every operation has released its lock when it returns or unwinds; whenever
\* some task is inside an operation, some task inside an operation can take
\* a step (no interleaving of the nine operations deadlocks); and under fair
\* scheduling every task that waits for a lock gets it: a task leaves its
\* waiting position only as the holder of the lock, and no task stays in a
\* waiting position for ever.
LocksAreHeldOneAtATimeAndGranted ==
    /\ [](\A t \in Tasks : ~(dlock = t /\ llock = t))
    /\ [](\A t \in Tasks : (dlock = t) <=> (pc[t] \in HoldsQueue))
    /\ [](\A t \in Tasks : (llock = t) <=> (pc[t] \in HoldsTable))
    /\ [](SomeTaskBusy => ENABLED StepInside)
    /\ [][\A t \in Tasks :
             /\ pc[t] \in AwaitsQueue /\ pc'[t] # pc[t] => dlock' = t
             /\ pc[t] \in AwaitsTable /\ pc'[t] # pc[t] => llock' = t]_vars
    /\ \A t \in Tasks : []<>(pc[t] \notin AwaitsQueue \cup AwaitsTable)

\* C28 witness: all three tasks want the lock of the queue at once: one is
\* inside has_errors holding it, while report and emit_all wait for it
ThreeTasksContendForTheQueue ==
    /\ pc["w2"] = "has_errors_read"
    /\ dlock = "w2"
    /\ pc["w1"] = "report_lock"
    /\ pc[Owner] = "emit_all_lock"

====
